---- MODULE Spec2Model ----
(***************************************************************************)
(* Verification model of the beeb/aoc-2023 solvers: the Day trait driver   *)
(* (days/mod.rs) and the algorithms of days 05, 14, 15, 16, 20 and 22.     *)
(* Every day has its own group of variables and its own specification;     *)
(* the groups of the other days are idle in a given specification.         *)
(***************************************************************************)
EXTENDS Integers, Sequences, FiniteSets, TLC

VARIABLES
    \* ---- days/mod.rs, Day::run_day (instantiated with Day15) ----
    run_fs,          \* the file system: "missing" or the content of the file at fp
    run_pc,          \* position inside run_day
    run_input,       \* the value bound by Ok((input, _))
    run_err,         \* the error returned by parse_file, "None" while there is none
    run_out,         \* the lines printed so far
    run_calls,       \* how many times parse / part_1 / part_2 were entered
    run_args,        \* the inputs handed to part_1 / part_2, in call order
    \* ---- days/day15.rs, Day15::part_2 ----
    d15_input,       \* Vec<String>
    d15_boxes,       \* boxes: Vec<Vec<Lens>>
    d15_ip,          \* index of the next instruction of the for loop
    d15_result,      \* the returned value
    \* ---- days/day14.rs, Day14::part_1 and Day14::part_2 ----
    d14_input,       \* the parsed Platform the caller owns
    d14_platform,    \* `let mut platform = input.clone()`
    d14_cache,       \* cache: HashMap<BTreeMap<Point, Rock>, usize>
    d14_i,           \* the loop counter of `for i in 0..`
    d14_pc,          \* "idle" between calls, "loop" / "restored" inside part_2
    d14_log,         \* the calls made so far: part, value, input before and after
    \* ---- days/day20.rs, Day20::part_1 and Day20::part_2 ----
    d20_input,       \* (modules, outputs) as parsed, owned by the caller
    d20_graph,       \* the node weights of `graph`: the state of every module
    d20_pc,          \* "idle", "part_1", "p2_reset", "p2_press", "p2_done", "panicked", "hang"
    d20_n,           \* part_1: the loop counter of `for _ in 0..1000`; part_2: `presses`
    d20_low_pulses,  \* part_1: low_pulses
    d20_high_pulses, \* part_1: high_pulses
    d20_sources,     \* part_2: the sources not yet measured
    d20_presses,     \* part_2: the presses measured so far
    d20_log,         \* the calls made so far: part, value, input before and after
    d20_ref,         \* the reference machine run beside part_1: state, low, high
    \* ---- days/day16.rs, get_beams and Day16::part_1 ----
    d16_grid,        \* the parsed Grid: grid, width, height
    d16_start,       \* start_pos and start_dir
    d16_beams,       \* beams: for every visited point the directions seen there
    d16_stack,       \* stack: the (pos, dir) pairs still to follow
    d16_pc,          \* "loop" inside the while loop, "done" once get_beams returned
    d16_result,      \* beams.len() once returned, -1 before
    \* ---- days/day22.rs, BrickIntoIterator ----
    it_iter,         \* the iterator: brick, dir, current
    it_out,          \* what the calls of next() returned so far
    \* ---- days/day22.rs, Day22::part_1 ----
    d22_input,       \* the parsed bricks, in file order
    d22_bricks,      \* bricks
    d22_grid,        \* grid: the occupied voxels
    d22_k,           \* the index of the brick the current loop is at
    d22_count,       \* can_disintegrate
    d22_pc,          \* "start", "settle", "count", "done", "panicked"
    \* ---- days/day05.rs, Day05::parse and Day05::part_1 ----
    d05_file,        \* the almanac as listed: seeds and the seven blocks of lines
    d05_tables,      \* the MappingTables parsed so far, in file order
    d05_pc,          \* "parse", "parsed", "done"; part_2: "done2", "panicked2"
    d05_result,      \* what part_1 returned, -1 before
    \* ---- days/day12.rs, Day12::part_1 ----
    d12_input,       \* the parsed rows
    d12_counts,      \* what count_solutions returned for the rows mapped so far
    d12_cache,       \* the cache as the last call of count_solutions left it
    d12_pc,          \* "map" while rows are mapped, "done" after the sum
    d12_result,      \* the sum once returned, -1 before
    \* ---- days/day19.rs, Day19::part_1 and Day19::part_2 ----
    d19_workflows,   \* the parsed workflows: name -> rules
    d19_parts,       \* the parsed parts
    d19_pc,          \* "parsed"; "done1", "done2" after a part returned; "panicked1", "panicked2"
    d19_result,      \* what the part returned, -1 before
    \* ---- days/day17.rs, Day17::part_1 ----
    d17_input,       \* the parsed grid, rows of block values
    d17_pc,          \* "parsed"; "done" after part_1 returned, "panicked"
    d17_result       \* what part_1 returned, -1 before

runVars == <<run_fs, run_pc, run_input, run_err, run_out, run_calls, run_args>>
d15Vars == <<d15_input, d15_boxes, d15_ip, d15_result>>
d14Vars == <<d14_input, d14_platform, d14_cache, d14_i, d14_pc, d14_log>>
d20Vars == <<d20_input, d20_graph, d20_pc, d20_n, d20_low_pulses, d20_high_pulses,
             d20_sources, d20_presses, d20_log, d20_ref>>
d16Vars == <<d16_grid, d16_start, d16_beams, d16_stack, d16_pc, d16_result>>
d22Vars == <<it_iter, it_out, d22_input, d22_bricks, d22_grid, d22_k, d22_count, d22_pc>>
d05Vars == <<d05_file, d05_tables, d05_pc, d05_result>>
d12Vars == <<d12_input, d12_counts, d12_cache, d12_pc, d12_result>>
d19Vars == <<d19_workflows, d19_parts, d19_pc, d19_result>>
d17Vars == <<d17_input, d17_pc, d17_result>>
vars == <<runVars, d15Vars, d14Vars, d20Vars, d16Vars, d22Vars, d05Vars, d12Vars, d19Vars, d17Vars>>

None == "None"

\* ---- bounds ----
MaxFileLen == 3      \* longest file content of the driver model
MaxInstr == 4        \* longest instruction list of the Day15 model
MaxRocks14 == 4      \* most rocks (round or cube) on a generated Day14 platform
MaxCalls == 3        \* most calls of part_1 / part_2 made on one parsed input
ExtraCycles == 3     \* cycles simulated directly past the first repeated state
MaxPulses20 == 24    \* most pulses followed within one button press
MaxPresses20 == 6    \* most presses part_2 of Day20 waits for one source
MaxCoord22 == 2      \* largest coordinate of a brick handed to the iterator
MaxNext22 == 5       \* most calls of next() on one iterator
MaxBricks22 == 3     \* most bricks of a generated snapshot
MaxSeeds05 == 2      \* most seeds of a generated almanac
MaxRanges05 == 2     \* most seed ranges of a generated almanac
MaxSprings12 == 4    \* most springs of a generated row
MaxGroups12 == 2     \* most groups of a generated row
MaxGroup12 == 2      \* largest group of a generated row
MaxRating19 == 3     \* greatest rating of a part, in place of the 4000 of part_2
MaxSize17 == 4       \* side of a generated grid, in place of SIZE

\* ---- generic helpers ----
SeqsUpTo(S, n) == UNION {[1..k -> S] : k \in 0..n}

RECURSIVE SumSeq(_)
SumSeq(s) == IF s = <<>> THEN 0 ELSE s[1] + SumSeq(Tail(s))

(***************************************************************************)
(* Day 15.  Strings are sequences of bytes.                                *)
(***************************************************************************)
NL == 10
COMMA == 44
MINUS == 45
EQUALS == 61
DIGIT1 == 49
DIGIT2 == 50
CH_r == 114
CH_n == 110
CH_c == 99
CH_m == 109
CH_p == 112
CH_q == 113

IsAlpha(c) == (c >= 65 /\ c <= 90) \/ (c >= 97 /\ c <= 122)
IsDigit(c) == c >= 48 /\ c <= 57

\* length of the longest prefix of s whose bytes are all in the class:
\* "alpha" (alpha1), "digit" (u8) or "item" (none_of("\n,"))
InClass(class, c) ==
    CASE class = "alpha" -> IsAlpha(c)
      [] class = "digit" -> IsDigit(c)
      [] OTHER -> c # NL /\ c # COMMA

RECURSIVE PrefixLen(_, _)
PrefixLen(class, s) ==
    IF s = <<>> \/ ~InClass(class, s[1]) THEN 0 ELSE 1 + PrefixLen(class, Tail(s))

\* fn hash_string: fold(0, |acc, c| ((acc + c) * 17) % 256)
hash_string(instr) ==
    LET RECURSIVE fold(_, _)
        fold(acc, s) == IF s = <<>> THEN acc
                        ELSE fold(((acc + s[1]) * 17) % 256, Tail(s))
    IN fold(0, instr)

\* many1(none_of("\n,"))
many1_none_of(s) ==
    LET k == PrefixLen("item", s)
    IN IF k = 0 THEN [ok |-> FALSE]
       ELSE [ok |-> TRUE, item |-> SubSeq(s, 1, k), rest |-> SubSeq(s, k + 1, Len(s))]

\* the tail of separated_list1(char(','), item): items after the first one
RECURSIVE separated_more(_)
separated_more(s) ==
    IF s # <<>> /\ s[1] = COMMA
    THEN LET r == many1_none_of(Tail(s))
         IN IF r.ok THEN <<r.item>> \o separated_more(r.rest) ELSE <<>>
    ELSE <<>>

\* Day15::parse
Day15_parse(s) ==
    LET r == many1_none_of(s)
    IN IF r.ok THEN [ok |-> TRUE, value |-> <<r.item>> \o separated_more(r.rest)]
       ELSE [ok |-> FALSE, err |-> "Parse"]

\* value of a string of decimal digits
RECURSIVE DecValue(_, _)
DecValue(acc, s) == IF s = <<>> THEN acc ELSE DecValue(acc * 10 + (s[1] - 48), Tail(s))

\* Instruction::new: tuple((alpha1, one_of("-="), opt(u8))) then unwrap;
\* "panic" stands for the unwrap of an Err or of a None value
Instruction_new(s) ==
    LET k == PrefixLen("alpha", s)
        label == SubSeq(s, 1, k)
        after == SubSeq(s, k + 2, Len(s))
        d == PrefixLen("digit", after)
        num == DecValue(0, SubSeq(after, 1, d))
        Panic == [ok |-> FALSE, label |-> <<>>, box_id |-> 0, action |-> "panic", focal |-> 0]
    IN IF k = 0 \/ Len(s) < k + 1 \/ s[k + 1] \notin {MINUS, EQUALS} THEN Panic
       ELSE IF s[k + 1] = MINUS
            THEN [ok |-> TRUE, label |-> label, box_id |-> hash_string(label),
                  action |-> "Remove", focal |-> 0]
            ELSE IF d = 0 \/ num > 255 THEN Panic
                 ELSE [ok |-> TRUE, label |-> label, box_id |-> hash_string(label),
                       action |-> "Add", focal |-> num]

\* b.retain(|l| l.label != label)
RECURSIVE retain(_, _)
retain(b, label) ==
    IF b = <<>> THEN <<>>
    ELSE IF b[1].label # label THEN <<b[1]>> \o retain(Tail(b), label)
         ELSE retain(Tail(b), label)

\* a mutant of apply_instr: an Add for a known label drops the old lens and
\* pushes the new one at the back
apply_instr_push_always(boxes, instr) ==
    LET b == boxes[instr.box_id]
    IN IF instr.action = "Remove"
       THEN [boxes EXCEPT ![instr.box_id] = retain(b, instr.label)]
       ELSE [boxes EXCEPT ![instr.box_id] =
                Append(retain(b, instr.label), [label |-> instr.label, focal |-> instr.focal])]

\* the body of the for loop of part_2 (day15.rs 96-119)
apply_instr(boxes, instr) ==
    LET b == boxes[instr.box_id]
    IN IF instr.action = "Remove"
       THEN [boxes EXCEPT ![instr.box_id] = retain(b, instr.label)]
       ELSE IF \E i \in 1..Len(b) : b[i].label = instr.label
            THEN LET i == CHOOSE i \in 1..Len(b) :
                              /\ b[i].label = instr.label
                              /\ \A j \in 1..(i - 1) : b[j].label # instr.label
                 IN [boxes EXCEPT ![instr.box_id] =
                        [b EXCEPT ![i] = [label |-> instr.label, focal |-> instr.focal]]]
            ELSE [boxes EXCEPT ![instr.box_id] =
                    Append(b, [label |-> instr.label, focal |-> instr.focal])]

\* the total focusing power (day15.rs 121-131)
focusing_power(boxes) ==
    LET RECURSIVE box_sum(_, _)
        box_sum(i, j) == IF j > Len(boxes[i]) THEN 0
                         ELSE (i + 1) * j * boxes[i][j].focal + box_sum(i, j + 1)
        \* the outer sum over boxes.iter().enumerate(), split in halves
        RECURSIVE all_sum(_, _)
        all_sum(lo, hi) == IF lo = hi THEN box_sum(lo, 1)
                           ELSE LET mid == (lo + hi) \div 2
                                IN all_sum(lo, mid) + all_sum(mid + 1, hi)
    IN all_sum(0, 255)

EmptyBoxes == [b \in 0..255 |-> <<>>]

\* Day15::part_1
Day15_part_1(input) == SumSeq([i \in 1..Len(input) |-> hash_string(input[i])])

\* Day15::part_2 as one call
Day15_part_2(input) ==
    LET instructions == [i \in 1..Len(input) |-> Instruction_new(input[i])]
        RECURSIVE run(_, _)
        run(boxes, k) == IF k > Len(instructions) THEN boxes
                         ELSE run(apply_instr(boxes, instructions[k]), k + 1)
    IN IF \E k \in 1..Len(instructions) : ~instructions[k].ok
       THEN [panic |-> TRUE, value |-> 0]
       ELSE [panic |-> FALSE, value |-> focusing_power(run(EmptyBoxes, 1))]

\* ---- the Day15::part_2 state machine ----
Labels15 == {<<CH_r, CH_n>>, <<CH_c, CH_m>>, <<CH_q, CH_p>>}
Strings15 == {l \o <<MINUS>> : l \in Labels15}
             \cup {l \o <<EQUALS, d>> : l \in Labels15, d \in {DIGIT1, DIGIT2}}

D15Idle ==
    /\ d15_input = <<>>
    /\ d15_boxes = <<>>
    /\ d15_ip = 0
    /\ d15_result = -1

D15Init ==
    /\ d15_input \in SeqsUpTo(Strings15, MaxInstr)
    /\ d15_boxes = EmptyBoxes
    /\ d15_ip = 1
    /\ d15_result = -1

\* one iteration of `for instr in instructions`
D15Step ==
    /\ d15_ip >= 1 /\ d15_ip <= Len(d15_input)
    /\ d15_result = -1
    /\ d15_boxes' = apply_instr(d15_boxes, Instruction_new(d15_input[d15_ip]))
    /\ d15_ip' = d15_ip + 1
    /\ UNCHANGED <<d15_input, d15_result>>

\* the loop is over: compute the focusing power and return it
D15Return ==
    /\ d15_ip > Len(d15_input)
    /\ d15_result = -1
    /\ d15_result' = focusing_power(d15_boxes)
    /\ UNCHANGED <<d15_input, d15_boxes, d15_ip>>

(***************************************************************************)
(* Day 14.  A Platform is [grid, width, height]; grid is a function from   *)
(* the occupied Points [y, x] to "Round" or "Cube" (the BTreeMap).         *)
(***************************************************************************)
SPIN_CYCLES == 1000000000

Point14(y, x) == [y |-> y, x |-> x]

\* Day14::parse: rows of '.', '#', 'O' to a Platform
Day14_parse(rows) ==
    LET occupied == {Point14(y, x) : y \in 0..(Len(rows) - 1), x \in 0..(Len(rows[1]) - 1)}
        cell(p) == rows[p.y + 1][p.x + 1]
    IN [grid |-> [p \in {q \in occupied : cell(q) # "."} |->
                    IF cell(p) = "O" THEN "Round" ELSE "Cube"],
        width |-> Len(rows[1]),
        height |-> Len(rows)]

\* Platform::has_rock
has_rock(platform, point) == point \in DOMAIN platform.grid

\* Platform::pos_load
pos_load(platform, point, dir) ==
    CASE dir = "North" -> platform.height - point.y
      [] dir = "East" -> point.x + 1
      [] dir = "South" -> point.y + 1
      [] dir = "West" -> platform.width - point.x

\* Platform::next_in_dir: the last point of the run of empty points that
\* starts next to `start` in direction dir, or start itself
next_in_dir(platform, start, dir) ==
    LET n == CASE dir = "North" -> start.y
               [] dir = "East" -> platform.width - 1 - start.x
               [] dir = "South" -> platform.height - 1 - start.y
               [] dir = "West" -> start.x
        at(k) == CASE dir = "North" -> Point14(start.y - k, start.x)
                   [] dir = "East" -> Point14(start.y, start.x + k)
                   [] dir = "South" -> Point14(start.y + k, start.x)
                   [] dir = "West" -> Point14(start.y, start.x - k)
        free == {k \in 1..n : \A m \in 1..k : ~has_rock(platform, at(m))}
    IN IF free = {} THEN start
       ELSE at(CHOOSE k \in free : \A m \in free : m <= k)

\* the order in which move_rocks visits the round rocks: the BTreeMap order
\* (y, then x) stably sorted by the key of the direction
rounds_before(a, b, dir) ==
    LET bt == a.y < b.y \/ (a.y = b.y /\ a.x < b.x)
    IN CASE dir = "North" -> a.y < b.y \/ (a.y = b.y /\ bt)
         [] dir = "East" -> b.x < a.x \/ (a.x = b.x /\ bt)
         [] dir = "South" -> b.y < a.y \/ (a.y = b.y /\ bt)
         [] dir = "West" -> a.x < b.x \/ (a.x = b.x /\ bt)

sorted_rounds(platform, dir) ==
    LET R == {p \in DOMAIN platform.grid : platform.grid[p] = "Round"}
        rank(p) == Cardinality({q \in R : rounds_before(q, p, dir)}) + 1
    IN [k \in 1..Cardinality(R) |-> CHOOSE p \in R : rank(p) = k]

\* Platform::move_rocks
move_rocks(platform, dir) ==
    LET rounds == sorted_rounds(platform, dir)
        RECURSIVE go(_, _)
        go(pl, k) ==
            IF k > Len(rounds) THEN pl
            ELSE LET p == rounds[k]
                     new_p == next_in_dir(pl, p, dir)
                     removed == [q \in (DOMAIN pl.grid) \ {p} |-> pl.grid[q]]
                     inserted == [q \in (DOMAIN removed) \cup {new_p} |->
                                    IF q = new_p THEN "Round" ELSE removed[q]]
                 IN go([pl EXCEPT !.grid = inserted], k + 1)
    IN go(platform, 1)

\* Platform::total_load
total_load(platform, dir) ==
    LET RECURSIVE sum(_)
        sum(S) == IF S = {} THEN 0
                  ELSE LET p == CHOOSE p \in S : TRUE
                       IN pos_load(platform, p, dir) + sum(S \ {p})
    IN sum({p \in DOMAIN platform.grid : platform.grid[p] = "Round"})

\* one pass of the loop body of part_2, lines 167-170
spin_cycle(platform) ==
    move_rocks(move_rocks(move_rocks(move_rocks(platform, "North"), "West"), "South"), "East")

\* a mutant of restore_target: the residue of 1_000_000_000 instead of 1_000_000_000 - 1
restore_target_off_by_one(modulo) == SPIN_CYCLES % modulo

\* let target = (1_000_000_000 - 1) % modulo
restore_target(modulo) == (SPIN_CYCLES - 1) % modulo

\* lines 177-181: the cached grid with the greatest index ii such that
\* ii % modulo == target
restore_elem(cache, modulo) ==
    LET hits == {g \in DOMAIN cache : cache[g] % modulo = restore_target(modulo)}
    IN CHOOSE g \in hits : \A h \in hits : cache[h] <= cache[g]

\* a mutant of after_clone: the part works on the caller's platform in place
after_clone_in_place(input, platform) == platform

\* what the caller's input is after a part has worked on `platform`: the
\* part clones its input (lines 151, 160), so the input is what it was
after_clone(input, platform) == input

TestRows14 ==
    << <<"O", ".", ".", ".", ".", "#", ".", ".", ".", ".">>,
       <<"O", ".", "O", "O", "#", ".", ".", ".", ".", "#">>,
       <<".", ".", ".", ".", ".", "#", "#", ".", ".", ".">>,
       <<"O", "O", ".", "#", "O", ".", ".", ".", ".", "O">>,
       <<".", "O", ".", ".", ".", ".", ".", "O", "#", ".">>,
       <<"O", ".", "#", ".", ".", "O", ".", "#", ".", "#">>,
       <<".", ".", "O", ".", ".", "#", "O", ".", ".", "O">>,
       <<".", ".", ".", ".", ".", ".", ".", "O", ".", ".">>,
       <<"#", ".", ".", ".", ".", "#", "#", "#", ".", ".">>,
       <<"#", "O", "O", ".", ".", "#", ".", ".", ".", ".">> >>

\* the generated inputs: every 3 x 3 platform with at most MaxRocks14 rocks
Dims14 == [width |-> 3, height |-> 3]
Rows14 ==
    {rows \in [1..Dims14.height -> [1..Dims14.width -> {".", "#", "O"}]] :
        Cardinality({c \in (1..Dims14.height) \X (1..Dims14.width) :
                        rows[c[1]][c[2]] # "."}) <= MaxRocks14}

EmptyPlatform == [grid |-> <<>>, width |-> 0, height |-> 0]

D14Idle ==
    /\ d14_input = EmptyPlatform
    /\ d14_platform = EmptyPlatform
    /\ d14_cache = <<>>
    /\ d14_i = 0
    /\ d14_pc = "off"
    /\ d14_log = <<>>

D14Init ==
    /\ d14_input \in {Day14_parse(rows) : rows \in Rows14 \cup {TestRows14}}
    /\ d14_platform = EmptyPlatform
    /\ d14_cache = <<>>
    /\ d14_i = 0
    /\ d14_pc = "idle"
    /\ d14_log = <<>>

\* Day14::part_1, lines 150-154
D14Part1 ==
    /\ d14_pc = "idle"
    /\ Len(d14_log) < MaxCalls
    /\ LET platform == move_rocks(d14_input, "North")
       IN /\ d14_platform' = platform
          /\ d14_input' = after_clone(d14_input, platform)
          /\ d14_log' = Append(d14_log, [part |-> 1, value |-> total_load(platform, "North"),
                                         before |-> d14_input, after |-> d14_input'])
    /\ UNCHANGED <<d14_cache, d14_i, d14_pc>>

\* Day14::part_2, lines 160-165: clone the input, start with an empty cache
D14Part2Start ==
    /\ d14_pc = "idle"
    /\ Len(d14_log) < MaxCalls
    /\ d14_platform' = d14_input
    /\ d14_cache' = <<>>
    /\ d14_i' = 0
    /\ d14_pc' = "loop"
    /\ UNCHANGED <<d14_input, d14_log>>

\* one iteration of `for i in 0..`, lines 166-186
D14Cycle ==
    /\ d14_pc = "loop"
    /\ LET platform == spin_cycle(d14_platform)
       IN IF platform.grid \in DOMAIN d14_cache
          THEN LET j == d14_cache[platform.grid]
                   modulo == d14_i - j
               IN /\ d14_platform' = [platform EXCEPT !.grid = restore_elem(d14_cache, modulo)]
                  /\ d14_pc' = "restored"
                  /\ UNCHANGED <<d14_cache, d14_i>>
          ELSE /\ d14_platform' = platform
               /\ d14_cache' = [g \in (DOMAIN d14_cache) \cup {platform.grid} |->
                                  IF g = platform.grid THEN d14_i ELSE d14_cache[g]]
               /\ d14_i' = d14_i + 1
               /\ d14_pc' = "loop"
    /\ UNCHANGED <<d14_input, d14_log>>

\* line 188: return the north load of the restored state
D14Part2Return ==
    /\ d14_pc = "restored"
    /\ d14_input' = after_clone(d14_input, d14_platform)
    /\ d14_log' = Append(d14_log, [part |-> 2, value |-> total_load(d14_platform, "North"),
                                   before |-> d14_input, after |-> d14_input'])
    /\ d14_pc' = "idle"
    /\ UNCHANGED <<d14_platform, d14_cache, d14_i>>

(***************************************************************************)
(* Day 20.  The input is [modules, outputs]: the kind of every named       *)
(* module and its list of destinations.  The graph has one node per named  *)
(* module, the button, and an Output node per destination with no          *)
(* definition; its structure is fixed by the input, d20_graph holds the    *)
(* node weights.                                                           *)
(***************************************************************************)
PRESSES == 1000

Range(f) == {f[x] : x \in DOMAIN f}
Reverse(q) == [k \in 1..Len(q) |-> q[Len(q) + 1 - k]]

Names20(input) == DOMAIN input.outputs
Undefined20(input) == UNION {Range(input.outputs[n]) : n \in Names20(input)} \ Names20(input)
Nodes20(input) == Names20(input) \cup {"button"} \cup Undefined20(input)

\* graph.neighbors_directed(n, Outgoing) on the graph create_graph builds:
\* add_edge puts the new edge at the head of the node's edge list, so the
\* children come out in the reverse of the order of the outputs
neighbors_outgoing(input, n) ==
    IF n = "button" THEN <<"broadcaster">>
    ELSE IF n \in Names20(input) THEN Reverse(input.outputs[n])
    ELSE <<>>

\* graph.neighbors_directed(n, Incoming)
neighbors_incoming(input, n) ==
    {m \in Nodes20(input) : n \in Range(neighbors_outgoing(input, m))}

\* a module as parse builds it: FlipFlopModule::default() is Off,
\* ConjunctionModule::default() has no input recorded
Module20(kind) == [kind |-> kind, state |-> "Off", input_states |-> <<>>]

\* the weight create_graph gives node n: modules.get(&name).unwrap().clone()
\* for a named module, Module::Button, Module::Output
fresh_weight(input, n) ==
    IF n = "button" THEN Module20("Button")
    ELSE IF n \in Names20(input) THEN input.modules[n]
    ELSE Module20("Output")

\* a mutant of modules_after: the graph holds the caller's modules themselves
modules_after_shared(input, weights) ==
    [input EXCEPT !.modules = [n \in Names20(input) |-> weights[n]]]

\* the caller's input once the part has run: the graph owns clones of the
\* modules and of the outputs, the input is only read
modules_after(input, weights) == input

\* create_graph: the node weights, and whether button_idx / output_idx are Some
create_graph(input) ==
    [weights |-> [n \in Nodes20(input) |-> fresh_weight(input, n)],
     button_ok |-> "broadcaster" \in Names20(input),
     output_ok |-> Undefined20(input) # {}]

\* reset_graph
reset_graph(weights) ==
    [n \in DOMAIN weights |->
        IF weights[n].kind = "FlipFlop" THEN [weights[n] EXCEPT !.state = "Off"]
        ELSE IF weights[n].kind = "Conjunction" THEN [weights[n] EXCEPT !.input_states = <<>>]
        ELSE weights[n]]

\* FlipFlopModule::flip
flip(m) ==
    IF m.state = "On" THEN [module |-> [m EXCEPT !.state = "Off"], pulse |-> "Low"]
    ELSE [module |-> [m EXCEPT !.state = "On"], pulse |-> "High"]

\* ConjunctionModule::record_pulse
record_pulse(m, parent, pulse) ==
    [m EXCEPT !.input_states =
        [x \in (DOMAIN m.input_states) \cup {parent} |->
            IF x = parent THEN pulse ELSE m.input_states[x]]]

\* ConjunctionModule::get_output
get_output(m, parents) ==
    IF \A x \in parents : x \in DOMAIN m.input_states /\ m.input_states[x] = "High"
    THEN "Low" ELSE "High"

\* the instructions pushed for the children of node `from`
push_children(input, from, pulse) ==
    LET ch == neighbors_outgoing(input, from)
    IN [k \in 1..Len(ch) |-> [from |-> from, dest |-> ch[k], pulse |-> pulse]]

\* press_button: the while loop over the instruction queue; check is the
\* node of check_output_high or "None".  hang: more than MaxPulses20 pulses.
press_button(input, weights0, check) ==
    LET RECURSIVE loop(_, _, _, _, _)
        loop(instr, weights, low, high, fuel) ==
            IF instr = <<>>
            THEN [low |-> low, high |-> high, output_high |-> FALSE,
                  weights |-> weights, hang |-> FALSE]
            ELSE IF fuel = 0
            THEN [low |-> low, high |-> high, output_high |-> FALSE,
                  weights |-> weights, hang |-> TRUE]
            ELSE
            LET i == Head(instr)
                rest == Tail(instr)
                low1 == IF i.pulse = "Low" THEN low + 1 ELSE low
                high1 == IF i.pulse = "High" THEN high + 1 ELSE high
                current == weights[i.dest]
            IN CASE current.kind \in {"Button", "Output"} ->
                        loop(rest, weights, low1, high1, fuel - 1)
                 [] current.kind = "Broadcaster" ->
                        loop(rest \o push_children(input, i.dest, "Low"),
                             weights, low1, high1, fuel - 1)
                 [] current.kind = "FlipFlop" ->
                        IF i.pulse = "High" THEN loop(rest, weights, low1, high1, fuel - 1)
                        ELSE LET f == flip(current)
                             IN loop(rest \o push_children(input, i.dest, f.pulse),
                                     [weights EXCEPT ![i.dest] = f.module],
                                     low1, high1, fuel - 1)
                 [] current.kind = "Conjunction" ->
                        LET m == record_pulse(current, i.from, i.pulse)
                            pulse == get_output(m, neighbors_incoming(input, i.dest))
                            weights1 == [weights EXCEPT ![i.dest] = m]
                        IN IF check = i.dest /\ pulse = "High"
                           THEN [low |-> low1, high |-> high1, output_high |-> TRUE,
                                 weights |-> weights1, hang |-> FALSE]
                           ELSE loop(rest \o push_children(input, i.dest, pulse),
                                     weights1, low1, high1, fuel - 1)
    IN loop(<<[from |-> "button", dest |-> "broadcaster", pulse |-> "Low"]>>,
            weights0, 0, 0, MaxPulses20)

\* ---- the reference machine of a button press, written from the rules the
\* claim names: every pulse is counted when it is sent, the destinations of
\* a module are served in the order given, a conjunction remembers Low for
\* every input until that input sends High ----
RefInputs(input, n) == {m \in Names20(input) : n \in Range(input.outputs[m])}

RefFresh(input) ==
    [n \in Names20(input) |->
        [on |-> FALSE, memory |-> [m \in RefInputs(input, n) |-> "Low"]]]

RefSend(input, from, pulse) ==
    [k \in 1..Len(input.outputs[from]) |->
        [from |-> from, dest |-> input.outputs[from][k], pulse |-> pulse]]

RefCount(sent, pulse) == Cardinality({k \in 1..Len(sent) : sent[k].pulse = pulse})

RefPress(input, ref) ==
    LET RECURSIVE deliver(_, _, _, _, _)
        deliver(queue, st, low, high, fuel) ==
            IF queue = <<>> \/ fuel = 0 THEN [state |-> st, low |-> low, high |-> high]
            ELSE
            LET p == Head(queue)
                kind == IF p.dest \in Names20(input) THEN input.modules[p.dest].kind ELSE "Output"
                st1 == CASE kind = "FlipFlop" /\ p.pulse = "Low" ->
                               [st EXCEPT ![p.dest].on = ~@]
                         [] kind = "Conjunction" ->
                               [st EXCEPT ![p.dest].memory[p.from] = p.pulse]
                         [] OTHER -> st
                sent == CASE kind = "Broadcaster" -> RefSend(input, p.dest, p.pulse)
                          [] kind = "FlipFlop" /\ p.pulse = "Low" ->
                               RefSend(input, p.dest, IF st1[p.dest].on THEN "High" ELSE "Low")
                          [] kind = "Conjunction" ->
                               RefSend(input, p.dest,
                                       IF Range(st1[p.dest].memory) \subseteq {"High"}
                                       THEN "Low" ELSE "High")
                          [] OTHER -> <<>>
            IN deliver(Tail(queue) \o sent, st1,
                       low + RefCount(sent, "Low"), high + RefCount(sent, "High"), fuel - 1)
    IN deliver(<<[from |-> "button", dest |-> "broadcaster", pulse |-> "Low"]>>,
               ref.state, ref.low + 1, ref.high, MaxPulses20)

\* num::Integer::lcm over the measured presses
RECURSIVE gcd(_, _)
gcd(a, b) == IF b = 0 THEN a ELSE gcd(b, a % b)
lcm(a, b) == (a * b) \div gcd(a, b)
RECURSIVE lcm_all(_)
lcm_all(q) == IF Len(q) = 1 THEN q[1] ELSE lcm(q[1], lcm_all(Tail(q)))

\* ---- inputs ----
\* tests::INPUT
TestInput20 ==
    [modules |-> [n \in {"broadcaster", "a", "inv", "b", "con"} |->
                    CASE n = "broadcaster" -> Module20("Broadcaster")
                      [] n \in {"a", "b"} -> Module20("FlipFlop")
                      [] OTHER -> Module20("Conjunction")],
     outputs |-> [n \in {"broadcaster", "a", "inv", "b", "con"} |->
                    CASE n = "broadcaster" -> <<"a">>
                      [] n = "a" -> <<"inv", "con">>
                      [] n = "inv" -> <<"b">>
                      [] n = "b" -> <<"con">>
                      [] OTHER -> <<"output">>]]

\* the first example of the puzzle: every destination is a defined module
Example1_20 ==
    [modules |-> [n \in {"broadcaster", "a", "b", "c", "inv"} |->
                    CASE n = "broadcaster" -> Module20("Broadcaster")
                      [] n = "inv" -> Module20("Conjunction")
                      [] OTHER -> Module20("FlipFlop")],
     outputs |-> [n \in {"broadcaster", "a", "b", "c", "inv"} |->
                    CASE n = "broadcaster" -> <<"a", "b", "c">>
                      [] n = "a" -> <<"b">>
                      [] n = "b" -> <<"c">>
                      [] n = "c" -> <<"inv">>
                      [] OTHER -> <<"a">>]]

\* generated inputs: broadcaster, flip-flop a, module b, conjunction c
Config20(bo, bkind, ao, bout, co) ==
    [modules |-> [n \in {"broadcaster", "a", "b", "c"} |->
                    CASE n = "broadcaster" -> Module20("Broadcaster")
                      [] n = "a" -> Module20("FlipFlop")
                      [] n = "b" -> Module20(bkind)
                      [] OTHER -> Module20("Conjunction")],
     outputs |-> [n \in {"broadcaster", "a", "b", "c"} |->
                    CASE n = "broadcaster" -> bo
                      [] n = "a" -> ao
                      [] n = "b" -> bout
                      [] OTHER -> co]]

Inputs20 ==
    {Config20(bo, bkind, ao, bout, co) :
        bo \in {<<"a">>, <<"a", "b">>, <<"b", "a">>},
        bkind \in {"FlipFlop", "Conjunction"},
        ao \in {<<"c">>, <<"b">>, <<"b", "c">>, <<"c", "b">>},
        bout \in {<<"c">>, <<"a">>},
        co \in {<<"rx">>, <<"a">>, <<"a", "rx">>, <<"rx", "a">>}}
    \cup {TestInput20, Example1_20}

\* inputs on which part_2 ends: rx behind a collector conjunction fed by
\* conjunctions
Chain20(kinds, outs) == [modules |-> kinds, outputs |-> outs]
PureInputs20 ==
    {TestInput20,
     Chain20([n \in {"broadcaster", "a", "s", "col"} |->
                CASE n = "broadcaster" -> Module20("Broadcaster")
                  [] n = "a" -> Module20("FlipFlop")
                  [] OTHER -> Module20("Conjunction")],
             [n \in {"broadcaster", "a", "s", "col"} |->
                CASE n = "broadcaster" -> <<"a">> [] n = "a" -> <<"s">>
                  [] n = "s" -> <<"col">> [] OTHER -> <<"rx">>]),
     Chain20([n \in {"broadcaster", "a", "b", "s", "t", "col"} |->
                CASE n = "broadcaster" -> Module20("Broadcaster")
                  [] n \in {"a", "b"} -> Module20("FlipFlop")
                  [] OTHER -> Module20("Conjunction")],
             [n \in {"broadcaster", "a", "b", "s", "t", "col"} |->
                CASE n = "broadcaster" -> <<"a">> [] n = "a" -> <<"s", "b">>
                  [] n = "b" -> <<"t">> [] n = "s" -> <<"col">>
                  [] n = "t" -> <<"col">> [] OTHER -> <<"rx">>])}

NoRef == [state |-> <<>>, low |-> 0, high |-> 0]

D20Idle ==
    /\ d20_input = [modules |-> <<>>, outputs |-> <<>>]
    /\ d20_graph = <<>>
    /\ d20_pc = "off"
    /\ d20_n = 0
    /\ d20_low_pulses = 0
    /\ d20_high_pulses = 0
    /\ d20_sources = {}
    /\ d20_presses = <<>>
    /\ d20_log = <<>>
    /\ d20_ref = NoRef

D20InitWith(inputs) ==
    /\ d20_input \in inputs
    /\ d20_graph = <<>>
    /\ d20_pc = "idle"
    /\ d20_n = 0
    /\ d20_low_pulses = 0
    /\ d20_high_pulses = 0
    /\ d20_sources = {}
    /\ d20_presses = <<>>
    /\ d20_log = <<>>
    /\ d20_ref = NoRef

\* part_1, lines 280-283: build the graph; the unwraps of create_graph panic
\* when there is no broadcaster or no destination without a definition
D20Part1Start ==
    /\ d20_pc = "idle"
    /\ Len(d20_log) < MaxCalls
    /\ LET g == create_graph(d20_input)
       IN /\ d20_graph' = g.weights
          /\ d20_pc' = IF g.button_ok /\ g.output_ok THEN "part_1" ELSE "panicked"
    /\ d20_n' = 0
    /\ d20_low_pulses' = 0
    /\ d20_high_pulses' = 0
    /\ d20_ref' = [state |-> RefFresh(d20_input), low |-> 0, high |-> 0]
    /\ UNCHANGED <<d20_input, d20_sources, d20_presses, d20_log>>

\* one iteration of `for _ in 0..1000`, lines 285-289
D20Part1Press ==
    /\ d20_pc = "part_1"
    /\ d20_n < PRESSES
    /\ LET r == press_button(d20_input, d20_graph, "None")
       IN /\ d20_graph' = r.weights
          /\ d20_low_pulses' = d20_low_pulses + r.low
          /\ d20_high_pulses' = d20_high_pulses + r.high
          /\ d20_pc' = IF r.hang THEN "hang" ELSE "part_1"
    /\ d20_n' = d20_n + 1
    /\ d20_ref' = RefPress(d20_input, d20_ref)
    /\ UNCHANGED <<d20_input, d20_sources, d20_presses, d20_log>>

\* line 290: low_pulses * high_pulses
D20Part1Return ==
    /\ d20_pc = "part_1"
    /\ d20_n = PRESSES
    /\ d20_input' = modules_after(d20_input, d20_graph)
    /\ d20_log' = Append(d20_log, [part |-> 1, value |-> d20_low_pulses * d20_high_pulses,
                                   before |-> d20_input, after |-> d20_input'])
    /\ d20_pc' = "idle"
    /\ UNCHANGED <<d20_graph, d20_n, d20_low_pulses, d20_high_pulses,
                   d20_sources, d20_presses, d20_ref>>

\* part_2, lines 301-311: build the graph, find the collector and its sources
D20Part2Start ==
    /\ d20_pc = "idle"
    /\ Len(d20_log) < MaxCalls
    /\ LET g == create_graph(d20_input)
           output_idx == CHOOSE o \in Undefined20(d20_input) : TRUE
           collector_idx == CHOOSE c \in neighbors_incoming(d20_input, output_idx) : TRUE
       IN /\ d20_graph' = g.weights
          /\ IF g.button_ok /\ g.output_ok
             THEN /\ d20_sources' = neighbors_incoming(d20_input, collector_idx)
                  /\ d20_pc' = IF d20_sources' = {} THEN "panicked" ELSE "p2_reset"
             ELSE /\ d20_pc' = "panicked"
                  /\ d20_sources' = {}
    /\ d20_presses' = <<>>
    /\ d20_n' = 0
    /\ UNCHANGED <<d20_input, d20_low_pulses, d20_high_pulses, d20_log, d20_ref>>

\* lines 317-318: reset the graph for the next source, presses = 1
D20Part2Reset ==
    /\ d20_pc = "p2_reset"
    /\ d20_sources # {}
    /\ d20_graph' = reset_graph(d20_graph)
    /\ d20_n' = 1
    /\ d20_pc' = "p2_press"
    /\ UNCHANGED <<d20_input, d20_low_pulses, d20_high_pulses, d20_sources,
                   d20_presses, d20_log, d20_ref>>

\* lines 322-325: one test of the while condition for the current source
D20Part2Press ==
    /\ d20_pc = "p2_press"
    /\ LET source == CHOOSE x \in d20_sources : TRUE
           r == press_button(d20_input, d20_graph, source)
       IN /\ d20_graph' = r.weights
          /\ IF r.output_high
             THEN /\ d20_presses' = Append(d20_presses, d20_n)
                  /\ d20_sources' = d20_sources \ {source}
                  /\ d20_n' = d20_n
                  /\ d20_pc' = "p2_reset"
             ELSE /\ d20_n' = d20_n + 1
                  /\ d20_pc' = IF r.hang \/ d20_n >= MaxPresses20 THEN "hang" ELSE "p2_press"
                  /\ UNCHANGED <<d20_sources, d20_presses>>
    /\ UNCHANGED <<d20_input, d20_low_pulses, d20_high_pulses, d20_log, d20_ref>>

\* line 331: the least common multiple of the presses
D20Part2Return ==
    /\ d20_pc = "p2_reset"
    /\ d20_sources = {}
    /\ d20_input' = modules_after(d20_input, d20_graph)
    /\ d20_log' = Append(d20_log, [part |-> 2, value |-> lcm_all(d20_presses),
                                   before |-> d20_input, after |-> d20_input'])
    /\ d20_pc' = "idle"
    /\ UNCHANGED <<d20_graph, d20_n, d20_low_pulses, d20_high_pulses,
                   d20_sources, d20_presses, d20_ref>>

(***************************************************************************)
(* Day 16.  Directions are the directions of travel.                       *)
(***************************************************************************)
Point16(x, y) == [x |-> x, y |-> y]

\* Day16::parse on the rows of the file: one Tile per character
Tile16(c) ==
    CASE c = "." -> "Empty"
      [] c = "|" -> "Vertical"
      [] c = "-" -> "Horizontal"
      [] c = "/" -> "Slash"
      [] c = "\\" -> "BackSlash"

Day16_parse(rows) ==
    [grid |-> [p \in {Point16(x, y) : x \in 0..(Len(rows[1]) - 1), y \in 0..(Len(rows) - 1)} |->
                  Tile16(rows[p.y + 1][p.x + 1])],
     width |-> Len(rows[1]),
     height |-> Len(rows)]

\* Point::at_dir: the neighbour in direction dir, or None outside the grid
at_dir(pos, dir, width, height) ==
    LET at == CASE dir = "Top" -> Point16(pos.x, pos.y - 1)
                [] dir = "Right" -> Point16(pos.x + 1, pos.y)
                [] dir = "Bottom" -> Point16(pos.x, pos.y + 1)
                [] dir = "Left" -> Point16(pos.x - 1, pos.y)
    IN IF at.x < 0 \/ at.x > width - 1 \/ at.y < 0 \/ at.y > height - 1
       THEN [ok |-> FALSE, pos |-> at]
       ELSE [ok |-> TRUE, pos |-> at]

\* a mutant of next_dirs: '/' turns the beam the way '\' does
next_dirs_slash_as_backslash(tile, dir) ==
    CASE tile = "Empty" -> <<dir>>
      [] tile = "Vertical" -> IF dir \in {"Top", "Bottom"} THEN <<dir>> ELSE <<"Top", "Bottom">>
      [] tile = "Horizontal" -> IF dir \in {"Left", "Right"} THEN <<dir>> ELSE <<"Left", "Right">>
      [] tile \in {"Slash", "BackSlash"} ->
            CASE dir = "Right" -> <<"Bottom">>
              [] dir = "Top" -> <<"Left">>
              [] dir = "Left" -> <<"Top">>
              [] dir = "Bottom" -> <<"Right">>

\* the arms of `match (tile, dir)`: the directions pushed, in push order
next_dirs(tile, dir) ==
    CASE tile = "Empty" -> <<dir>>
      [] tile = "Vertical" /\ dir \in {"Top", "Bottom"} -> <<dir>>
      [] tile = "Horizontal" /\ dir \in {"Left", "Right"} -> <<dir>>
      [] tile = "Vertical" /\ dir \in {"Right", "Left"} -> <<"Top", "Bottom">>
      [] tile = "Horizontal" /\ dir \in {"Top", "Bottom"} -> <<"Left", "Right">>
      [] (tile = "Slash" /\ dir = "Left") \/ (tile = "BackSlash" /\ dir = "Right") -> <<"Bottom">>
      [] (tile = "Slash" /\ dir = "Bottom") \/ (tile = "BackSlash" /\ dir = "Top") -> <<"Left">>
      [] (tile = "Slash" /\ dir = "Right") \/ (tile = "BackSlash" /\ dir = "Left") -> <<"Top">>
      [] (tile = "Slash" /\ dir = "Top") \/ (tile = "BackSlash" /\ dir = "Bottom") -> <<"Right">>

\* the pushes of one iteration: `if let Some(next) = pos.at_dir(..)` per direction
pushed(grid, pos, dirs) ==
    LET RECURSIVE go(_)
        go(k) ==
            IF k > Len(dirs) THEN <<>>
            ELSE LET at == at_dir(pos, dirs[k], grid.width, grid.height)
                 IN (IF at.ok THEN <<[pos |-> at.pos, dir |-> dirs[k]]>> ELSE <<>>) \o go(k + 1)
    IN go(1)

\* tests::INPUT
TestRows16 ==
    <<<<".", "|", ".", ".", ".", "\\", ".", ".", ".", ".">>,
      <<"|", ".", "-", ".", "\\", ".", ".", ".", ".", ".">>,
      <<".", ".", ".", ".", ".", "|", "-", ".", ".", ".">>,
      <<".", ".", ".", ".", ".", ".", ".", ".", "|", ".">>,
      <<".", ".", ".", ".", ".", ".", ".", ".", ".", ".">>,
      <<".", ".", ".", ".", ".", ".", ".", ".", ".", "\\">>,
      <<".", ".", ".", ".", "/", ".", "\\", "\\", ".", ".">>,
      <<".", "-", ".", "-", "/", ".", ".", "|", ".", ".">>,
      <<".", "|", ".", ".", ".", ".", "-", "|", ".", "\\">>,
      <<".", ".", "/", "/", ".", "|", ".", ".", ".", ".">>>>

Dims16 == [width |-> 3, height |-> 2]
Tiles16 == {".", "|", "-", "/", "\\"}
Rows16 == [1..Dims16.height -> [1..Dims16.width -> Tiles16]]

\* the beams followed: the one of part_1 and three more entering elsewhere
Starts16(grid) ==
    {[pos |-> Point16(0, 0), dir |-> "Right"],
     [pos |-> Point16(0, 0), dir |-> "Bottom"],
     [pos |-> Point16(grid.width - 1, grid.height - 1), dir |-> "Left"],
     [pos |-> Point16(1, grid.height - 1), dir |-> "Top"]}

D16Idle ==
    /\ d16_grid = [grid |-> <<>>, width |-> 0, height |-> 0]
    /\ d16_start = [pos |-> Point16(0, 0), dir |-> "Right"]
    /\ d16_beams = <<>>
    /\ d16_stack = <<>>
    /\ d16_pc = "off"
    /\ d16_result = -1

\* get_beams, lines 72-74: empty beams, the start on the stack
D16Init ==
    /\ d16_grid \in {Day16_parse(rows) : rows \in Rows16 \cup {TestRows16}}
    /\ d16_start \in Starts16(d16_grid)
    /\ d16_beams = <<>>
    /\ d16_stack = <<d16_start>>
    /\ d16_pc = "loop"
    /\ d16_result = -1

\* one iteration of `while let Some((pos, dir)) = stack.pop_front()`
D16Step ==
    /\ d16_pc = "loop"
    /\ d16_stack # <<>>
    /\ LET pos == Head(d16_stack).pos
           dir == Head(d16_stack).dir
           rest == Tail(d16_stack)
       IN IF pos \in DOMAIN d16_beams /\ \E k \in DOMAIN d16_beams[pos] : d16_beams[pos][k] = dir
          THEN /\ d16_stack' = rest
               /\ UNCHANGED d16_beams
          ELSE /\ d16_beams' =
                    [p \in (DOMAIN d16_beams) \cup {pos} |->
                        IF p = pos
                        THEN (IF pos \in DOMAIN d16_beams THEN Append(d16_beams[pos], dir)
                              ELSE <<dir>>)
                        ELSE d16_beams[p]]
               /\ d16_stack' = rest \o pushed(d16_grid, pos, next_dirs(d16_grid.grid[pos], dir))
    /\ UNCHANGED <<d16_grid, d16_start, d16_pc, d16_result>>

\* the loop ends on the empty stack; part_1 takes beams.len()
D16Return ==
    /\ d16_pc = "loop"
    /\ d16_stack = <<>>
    /\ d16_pc' = "done"
    /\ d16_result' = Cardinality(DOMAIN d16_beams)
    /\ UNCHANGED <<d16_grid, d16_start, d16_beams, d16_stack>>

(***************************************************************************)
(* Day 22.                                                                 *)
(***************************************************************************)
SETTLE_RANGE_END == 1000

Voxel22(x, y, z) == [z |-> z, x |-> x, y |-> y]
Brick22(begin, end) == [begin |-> begin, end |-> end]

\* #[derive(PartialOrd, Ord)] on Voxel: the fields compared in the order z, x, y
voxel_cmp(a, b) ==
    CASE a.z # b.z -> IF a.z < b.z THEN -1 ELSE 1
      [] a.x # b.x -> IF a.x < b.x THEN -1 ELSE 1
      [] a.y # b.y -> IF a.y < b.y THEN -1 ELSE 1
      [] OTHER -> 0

\* #[derive(PartialOrd, Ord)] on Brick: begin, then end
brick_le(a, b) ==
    \/ voxel_cmp(a.begin, b.begin) < 0
    \/ voxel_cmp(a.begin, b.begin) = 0 /\ voxel_cmp(a.end, b.end) <= 0

\* Brick::dir
Brick_dir(brick) ==
    IF brick.begin.x # brick.end.x THEN "X"
    ELSE IF brick.begin.y # brick.end.y THEN "Y"
    ELSE "Z"

\* IntoIterator for Brick
Brick_into_iter(brick) == [brick |-> brick, dir |-> Brick_dir(brick), current |-> brick.begin]

NoVoxel == Voxel22(-1, -1, -1)

\* a mutant of Brick_next: the end voxel is not yielded
Brick_next_exclusive_end(it) ==
    IF voxel_cmp(it.current, it.brick.end) >= 0
    THEN [it |-> it, some |-> FALSE, item |-> NoVoxel]
    ELSE [it |-> [it EXCEPT !.current =
                    CASE it.dir = "X" -> [@ EXCEPT !.x = @ + 1]
                      [] it.dir = "Y" -> [@ EXCEPT !.y = @ + 1]
                      [] it.dir = "Z" -> [@ EXCEPT !.z = @ + 1]],
          some |-> TRUE, item |-> it.current]

\* BrickIntoIterator::next: the iterator after the call and what it returned
Brick_next(it) ==
    LET curr == it.current
    IN IF voxel_cmp(curr, it.brick.end) > 0
       THEN [it |-> it, some |-> FALSE, item |-> NoVoxel]
       ELSE [it |-> [it EXCEPT !.current =
                       CASE it.dir = "X" -> Voxel22(curr.x + 1, curr.y, curr.z)
                         [] it.dir = "Y" -> Voxel22(curr.x, curr.y + 1, curr.z)
                         [] it.dir = "Z" -> Voxel22(curr.x, curr.y, curr.z + 1)],
             some |-> TRUE, item |-> curr]

\* brick.into_iter() run to its end: the voxels in the order yielded
RECURSIVE collect(_)
collect(it) ==
    LET r == Brick_next(it)
    IN IF r.some THEN <<r.item>> \o collect(r.it) ELSE <<>>
brick_voxels(brick) == collect(Brick_into_iter(brick))

\* Brick::supporting_voxels
supporting_voxels(brick, grid) ==
    IF brick.begin.z <= 1 THEN <<>>
    ELSE IF Brick_dir(brick) = "Z"
    THEN LET below == Voxel22(brick.begin.x, brick.begin.y, brick.begin.z - 1)
         IN IF below \in grid THEN <<below>> ELSE <<>>
    ELSE LET vs == brick_voxels(brick)
             RECURSIVE filter_map(_)
             filter_map(k) ==
                 IF k > Len(vs) THEN <<>>
                 ELSE LET below == Voxel22(vs[k].x, vs[k].y, vs[k].z - 1)
                      IN (IF below \in grid THEN <<below>> ELSE <<>>) \o filter_map(k + 1)
         IN filter_map(1)

\* Vec::sort / Itertools::sorted
RECURSIVE sort_bricks(_)
sort_bricks(q) ==
    IF q = <<>> THEN <<>>
    ELSE LET rest == sort_bricks(Tail(q))
             n == Cardinality({k \in DOMAIN rest : ~brick_le(Head(q), rest[k])})
         IN SubSeq(rest, 1, n) \o <<Head(q)>> \o SubSeq(rest, n + 1, Len(rest))

\* settle, the closure of take_while: may the brick go down by i
can_drop(brick, grid, i) ==
    IF Brick_dir(brick) = "Z"
    THEN /\ brick.begin.z - i >= 0
         /\ brick.begin.z - i # 0
         /\ Voxel22(brick.begin.x, brick.begin.y, brick.begin.z - i) \notin grid
    ELSE \A k \in DOMAIN brick_voxels(brick) :
            LET v == brick_voxels(brick)[k]
            IN /\ v.z - i >= 0
               /\ v.z - i # 0
               /\ Voxel22(v.x, v.y, v.z - i) \notin grid

\* (1..1000).take_while(..).count()
RECURSIVE move_z_from(_, _, _)
move_z_from(brick, grid, i) ==
    IF i < SETTLE_RANGE_END /\ can_drop(brick, grid, i)
    THEN 1 + move_z_from(brick, grid, i + 1) ELSE 0
move_z(brick, grid) == move_z_from(brick, grid, 1)

\* a mutant of find_other: no skip_while, the first brick of the column found
find_other_any_level(bricks, above) ==
    LET hits == {k \in DOMAIN bricks :
                    \E j \in DOMAIN brick_voxels(bricks[k]) :
                        /\ brick_voxels(bricks[k])[j].x = above.x
                        /\ brick_voxels(bricks[k])[j].y = above.y}
    IN IF hits = {} THEN 0 ELSE CHOOSE k \in hits : \A j \in hits : k <= j

\* bricks.iter().skip_while(|b| b.begin.z < above.z).find(..): the index of
\* the brick found, 0 for None
find_other(bricks, above) ==
    LET kept == {k \in DOMAIN bricks : \E j \in 1..k : ~(bricks[j].begin.z < above.z)}
        hits == {k \in kept :
                    \E j \in DOMAIN brick_voxels(bricks[k]) :
                        /\ brick_voxels(bricks[k])[j].x = above.x
                        /\ brick_voxels(bricks[k])[j].y = above.y}
    IN IF hits = {} THEN 0 ELSE CHOOSE k \in hits : \A j \in hits : k <= j

\* the body of `'outer: for brick in &bricks`: "count" when can_disintegrate
\* is incremented, "skip" when it is not, "panic" when find(..).unwrap() fails
disintegrate_arm(brick, bricks, grid) ==
    IF Brick_dir(brick) = "Z"
    THEN LET above == Voxel22(brick.end.x, brick.end.y, brick.end.z + 1)
         IN IF above \in grid
            THEN LET other == find_other(bricks, above)
                 IN IF other = 0 THEN "panic"
                    ELSE IF Len(supporting_voxels(bricks[other], grid)) > 1 THEN "count"
                    ELSE "skip"
            ELSE "count"
    ELSE LET voxels == brick_voxels(brick)
             occupied == {k \in DOMAIN voxels :
                            Voxel22(voxels[k].x, voxels[k].y, voxels[k].z + 1) \in grid}
             other(k) == find_other(bricks, Voxel22(voxels[k].x, voxels[k].y, voxels[k].z + 1))
             sole(k) == LET supporting == supporting_voxels(bricks[other(k)], grid)
                        IN \A j \in DOMAIN supporting :
                              \E m \in DOMAIN voxels : voxels[m] = supporting[j]
             stops == {k \in occupied : other(k) = 0 \/ sole(k)}
         IN IF stops = {} THEN "count"
            ELSE IF other(CHOOSE k \in stops : \A j \in stops : k <= j) = 0 THEN "panic"
            ELSE "skip"

\* ---- inputs ----
\* bricks handed to the iterator: begin <= end in every coordinate
IterBricks22 ==
    {Brick22(Voxel22(bx, by, bz), Voxel22(ex, ey, ez)) :
        bx \in 0..MaxCoord22, by \in 0..MaxCoord22, bz \in 0..MaxCoord22,
        ex \in 0..MaxCoord22, ey \in 0..MaxCoord22, ez \in 0..MaxCoord22}
    \cap {b \in [begin : [z : 0..MaxCoord22, x : 0..MaxCoord22, y : 0..MaxCoord22],
                 end : [z : 0..MaxCoord22, x : 0..MaxCoord22, y : 0..MaxCoord22]] :
            b.begin.x <= b.end.x /\ b.begin.y <= b.end.y /\ b.begin.z <= b.end.z}

\* tests::INPUT
TestBricks22 ==
    <<Brick22(Voxel22(1, 0, 1), Voxel22(1, 2, 1)),
      Brick22(Voxel22(0, 0, 2), Voxel22(2, 0, 2)),
      Brick22(Voxel22(0, 2, 3), Voxel22(2, 2, 3)),
      Brick22(Voxel22(0, 0, 4), Voxel22(0, 2, 4)),
      Brick22(Voxel22(2, 0, 5), Voxel22(2, 2, 5)),
      Brick22(Voxel22(0, 1, 6), Voxel22(2, 1, 6)),
      Brick22(Voxel22(1, 1, 8), Voxel22(1, 1, 9))>>

\* snapshots: straight bricks inside a 2 x 2 column of height 3, above the
\* ground, no two sharing a voxel
Dims22 == [x |-> 1, y |-> 1, z |-> 3]
Cells22(b) ==
    {Voxel22(x, y, z) : x \in b.begin.x..b.end.x, y \in b.begin.y..b.end.y, z \in b.begin.z..b.end.z}
SnapshotBricks22 ==
    {b \in [begin : [z : 1..Dims22.z, x : 0..Dims22.x, y : 0..Dims22.y],
            end : [z : 1..Dims22.z, x : 0..Dims22.x, y : 0..Dims22.y]] :
        /\ b.begin.x <= b.end.x /\ b.begin.y <= b.end.y /\ b.begin.z <= b.end.z
        /\ Cardinality({c \in {"x", "y", "z"} : b.begin[c] # b.end[c]}) <= 1}
RECURSIVE SetsUpTo(_, _)
SetsUpTo(B, n) ==
    IF n = 0 THEN {{}}
    ELSE LET smaller == SetsUpTo(B, n - 1)
         IN smaller \cup {S \cup {b} : S \in smaller, b \in B}
Snapshots22 ==
    {S \in SetsUpTo(SnapshotBricks22, MaxBricks22) :
        /\ S # {}
        /\ \A a, b \in S : a # b => Cells22(a) \cap Cells22(b) = {}}

\* a snapshot as a file lists it: here from the highest brick to the lowest
RECURSIVE file_order(_)
file_order(S) ==
    IF S = {} THEN <<>>
    ELSE LET last == CHOOSE b \in S : \A c \in S : brick_le(b, c)
         IN file_order(S \ {last}) \o <<last>>

ItIdle ==
    /\ it_iter = Brick_into_iter(Brick22(NoVoxel, NoVoxel))
    /\ it_out = <<>>

D22Idle ==
    /\ ItIdle
    /\ d22_input = <<>>
    /\ d22_bricks = <<>>
    /\ d22_grid = {}
    /\ d22_k = 0
    /\ d22_count = 0
    /\ d22_pc = "off"

\* brick.into_iter()
ItInit ==
    /\ \E brick \in IterBricks22 : it_iter = Brick_into_iter(brick)
    /\ it_out = <<>>
    /\ d22_input = <<>>
    /\ d22_bricks = <<>>
    /\ d22_grid = {}
    /\ d22_k = 0
    /\ d22_count = 0
    /\ d22_pc = "off"

\* iter.next()
ItNext ==
    /\ Len(it_out) < MaxNext22
    /\ LET r == Brick_next(it_iter)
       IN /\ it_iter' = r.it
          /\ it_out' = Append(it_out, [some |-> r.some, item |-> r.item])
    /\ UNCHANGED <<d22_input, d22_bricks, d22_grid, d22_k, d22_count, d22_pc>>

D22Init ==
    /\ ItIdle
    /\ d22_input \in {file_order(S) : S \in Snapshots22} \cup {TestBricks22}
    /\ d22_bricks = <<>>
    /\ d22_grid = {}
    /\ d22_k = 0
    /\ d22_count = 0
    /\ d22_pc = "start"

\* part_1, lines 294-298: sort a copy of the input, fill the grid
D22Part1Start ==
    /\ d22_pc = "start"
    /\ d22_bricks' = sort_bricks(d22_input)
    /\ d22_grid' = UNION {Range(brick_voxels(d22_input[k])) : k \in DOMAIN d22_input}
    /\ d22_k' = 1
    /\ d22_pc' = "settle"
    /\ UNCHANGED <<it_iter, it_out, d22_input, d22_count>>

\* settle, one iteration of `for brick in bricks.iter_mut()`
D22SettleBrick ==
    /\ d22_pc = "settle"
    /\ d22_k <= Len(d22_bricks)
    /\ LET brick == d22_bricks[d22_k]
           dz == move_z(brick, d22_grid)
           moved == Brick22([brick.begin EXCEPT !.z = @ - dz], [brick.end EXCEPT !.z = @ - dz])
       IN /\ d22_grid' = (d22_grid \ Range(brick_voxels(brick))) \cup Range(brick_voxels(moved))
          /\ d22_bricks' = [d22_bricks EXCEPT ![d22_k] = moved]
    /\ d22_k' = d22_k + 1
    /\ UNCHANGED <<it_iter, it_out, d22_input, d22_count, d22_pc>>

\* settle, line 213: bricks.sort(); part_1, line 300: can_disintegrate = 0
D22SettleSort ==
    /\ d22_pc = "settle"
    /\ d22_k > Len(d22_bricks)
    /\ d22_bricks' = sort_bricks(d22_bricks)
    /\ d22_k' = 1
    /\ d22_count' = 0
    /\ d22_pc' = "count"
    /\ UNCHANGED <<it_iter, it_out, d22_input, d22_grid>>

\* part_1, one iteration of `'outer: for brick in &bricks`
D22CountBrick ==
    /\ d22_pc = "count"
    /\ d22_k <= Len(d22_bricks)
    /\ LET arm == disintegrate_arm(d22_bricks[d22_k], d22_bricks, d22_grid)
       IN /\ d22_count' = IF arm = "count" THEN d22_count + 1 ELSE d22_count
          /\ d22_pc' = IF arm = "panic" THEN "panicked" ELSE "count"
    /\ d22_k' = d22_k + 1
    /\ UNCHANGED <<it_iter, it_out, d22_input, d22_bricks, d22_grid>>

\* part_1, line 351: can_disintegrate is returned
D22Return ==
    /\ d22_pc = "count"
    /\ d22_k > Len(d22_bricks)
    /\ d22_pc' = "done"
    /\ UNCHANGED <<it_iter, it_out, d22_input, d22_bricks, d22_grid, d22_k, d22_count>>

(***************************************************************************)
(* Day 5.  A Range<u64> is [start, end), end excluded.                     *)
(***************************************************************************)
\* u64::MAX; the integers of the model are 32 bits wide, and every number
\* of the almanacs below stays far under it
U64_MAX == 2147483647
MAPS == 7

Range05(start, end) == [start |-> start, end |-> end]
contains(r, n) == r.start <= n /\ n < r.end

\* parse_mappings, lines 143-151: one Mapping per line "dest source len"
line_mapping(range_info) ==
    [source |-> Range05(range_info[2], range_info[2] + range_info[3]),
     dest |-> Range05(range_info[1], range_info[1] + range_info[3])]

\* .sorted_by(|a, b| a.dest.start.cmp(&b.dest.start)): stable
RECURSIVE sorted_by_dest_start(_)
sorted_by_dest_start(q) ==
    IF q = <<>> THEN <<>>
    ELSE LET rest == sorted_by_dest_start(Tail(q))
             n == Cardinality({k \in DOMAIN rest : rest[k].dest.start < Head(q).dest.start})
         IN SubSeq(rest, 1, n) \o <<Head(q)>> \o SubSeq(rest, n + 1, Len(rest))

\* parse_mappings on the lines of one block: the sorted mappings, a mapping
\* of 0..first.dest.start onto itself pushed at the front when that is not
\* empty, a mapping of last.dest.end..u64::MAX onto itself pushed at the back
parse_mappings(items) ==
    LET sorted == sorted_by_dest_start([k \in DOMAIN items |-> line_mapping(items[k])])
        front == IF sorted # <<>> /\ sorted[1].dest.start > 0
                 THEN <<[source |-> Range05(0, sorted[1].dest.start),
                         dest |-> Range05(0, sorted[1].dest.start)]>> \o sorted
                 ELSE sorted
    IN IF front # <<>>
       THEN Append(front, [source |-> Range05(front[Len(front)].dest.end, U64_MAX),
                           dest |-> Range05(front[Len(front)].dest.end, U64_MAX)])
       ELSE front

\* MappingTable::dest: the first mapping whose source contains the number
dest(mappings, source) ==
    LET found == {k \in DOMAIN mappings : contains(mappings[k].source, source)}
    IN IF found = {} THEN source
       ELSE LET mapping == mappings[CHOOSE k \in found : \A j \in found : k <= j]
            IN mapping.dest.start + (source - mapping.source.start)

\* Almanac::location: the seven tables in order
RECURSIVE through(_, _, _)
through(tables, k, n) ==
    IF k > Len(tables) THEN n ELSE through(tables, k + 1, dest(tables[k], n))
location(tables, seed) == through(tables, 1, seed)

\* Iterator::min over the locations of the seeds
Day05_part_1(seeds, tables) ==
    LET locations == {location(tables, seeds[k]) : k \in DOMAIN seeds}
    IN CHOOSE m \in locations : \A n \in locations : m <= n

\* Almanac::seed_ranges: the seeds in chunks of two, start..start + len; a
\* last chunk of one seed is dropped
seed_ranges(seeds) ==
    [k \in 1..(Len(seeds) \div 2) |-> Range05(seeds[2 * k - 1], seeds[2 * k - 1] + seeds[2 * k])]

\* range_overlap: Some(range) or None
range_overlap(first, second) ==
    IF first.end >= second.start /\ first.start <= second.end
    THEN IF first.start < second.start
         THEN IF first.end > second.end
              THEN [some |-> TRUE, range |-> second]
              ELSE [some |-> TRUE, range |-> Range05(second.start, first.end)]
         ELSE IF second.end > first.end
              THEN [some |-> TRUE, range |-> first]
              ELSE [some |-> TRUE, range |-> Range05(first.start, second.end)]
    ELSE [some |-> FALSE, range |-> Range05(0, 0)]

\* compatible_mappings: the mappings of the table, sorted by dest.start, cut
\* to the part of their dest that overlaps prev_mapping.source
compatible_mappings(all_mappings, prev_mapping) ==
    LET sorted == sorted_by_dest_start(all_mappings)
        RECURSIVE filter_map(_)
        filter_map(k) ==
            IF k > Len(sorted) THEN <<>>
            ELSE LET m == sorted[k]
                     o == range_overlap(prev_mapping.source, m.dest)
                     offset == o.range.start - m.dest.start
                     len == o.range.end - o.range.start
                     source_start == m.source.start + offset
                 IN (IF o.some
                     THEN <<[source |-> Range05(source_start, source_start + len),
                             dest |-> o.range]>>
                     ELSE <<>>) \o filter_map(k + 1)
    IN filter_map(1)

\* part_2, lines 234-241: the first seed range overlapping soil_mapping.source
\* ("none": continue), else the least location over the overlap ("panic":
\* min() of an empty range unwrapped)
innermost(seeds, tables, soil_mapping) ==
    LET ranges == seed_ranges(seeds)
        hits == {k \in DOMAIN ranges : range_overlap(ranges[k], soil_mapping.source).some}
    IN IF hits = {} THEN [kind |-> "none", value |-> 0]
       ELSE LET seed_range == range_overlap(ranges[CHOOSE k \in hits : \A j \in hits : k <= j],
                                            soil_mapping.source).range
                locations == {location(tables, n) : n \in seed_range.start..(seed_range.end - 1)}
            IN IF locations = {} THEN [kind |-> "panic", value |-> 0]
               ELSE [kind |-> "value",
                     value |-> CHOOSE m \in locations : \A n \in locations : m <= n]

\* part_2, the nested for loops: `mappings` are the mappings the loop at
\* table k runs over, from index i on; the first return or panic ends all
RECURSIVE nested_for(_, _, _, _, _)
nested_for(seeds, tables, k, mappings, i) ==
    IF i > Len(mappings) THEN [kind |-> "none", value |-> 0]
    ELSE LET inner == IF k = 1 THEN innermost(seeds, tables, mappings[i])
                      ELSE nested_for(seeds, tables, k - 1,
                                      compatible_mappings(tables[k - 1], mappings[i]), 1)
         IN IF inner.kind # "none" THEN inner
            ELSE nested_for(seeds, tables, k, mappings, i + 1)

\* Day05::part_2; falling out of the loops is the panic of line 249
Day05_part_2(seeds, tables) ==
    LET r == nested_for(seeds, tables, MAPS, sorted_by_dest_start(tables[MAPS]), 1)
    IN IF r.kind = "none" THEN [kind |-> "panic", value |-> 0] ELSE r

\* ---- inputs ----
\* tests::test_part1
TestSeeds05 == <<79, 14, 55, 13>>
TestBlocks05 ==
    <<<< <<50, 98, 2>>, <<52, 50, 48>> >>,
      << <<0, 15, 37>>, <<37, 52, 2>>, <<39, 0, 15>> >>,
      << <<49, 53, 8>>, <<0, 11, 42>>, <<42, 0, 7>>, <<57, 7, 4>> >>,
      << <<88, 18, 7>>, <<18, 25, 70>> >>,
      << <<45, 77, 23>>, <<81, 45, 19>>, <<68, 64, 13>> >>,
      << <<0, 69, 1>>, <<1, 0, 69>> >>,
      << <<60, 56, 37>>, <<56, 93, 4>> >> >>

\* the blocks of the generated almanacs: listed sources never overlap
Blocks05 ==
    { << <<10, 0, 5>> >>,
      << <<0, 5, 3>>, <<3, 0, 5>> >>,
      << <<5, 8, 2>>, <<7, 5, 3>> >> }
SeedValues05 == {0, 3, 8}
Files05 ==
    {[seeds |-> seeds, blocks |-> blocks] :
        seeds \in SeqsUpTo(SeedValues05, MaxSeeds05) \ {<<>>},
        blocks \in [1..MAPS -> Blocks05]}
    \cup {[seeds |-> TestSeeds05, blocks |-> TestBlocks05]}

\* the almanacs of part_2: blocks that list all of 0..10, seed ranges
\* inside it, some of them empty
RangeBlocks05 ==
    { << <<0, 0, 10>> >>,
      << <<0, 5, 5>>, <<5, 0, 5>> >> }
SeedStarts05 == {1, 4, 5}
SeedLens05 == {0, 1, 2}
RECURSIVE Pairs05(_)
Pairs05(n) ==
    IF n = 0 THEN {<<>>}
    ELSE {q \o <<start, len>> : q \in Pairs05(n - 1), start \in SeedStarts05, len \in SeedLens05}
RangeFiles05 ==
    {[seeds |-> seeds, blocks |-> blocks] :
        seeds \in UNION {Pairs05(n) : n \in 1..MaxRanges05},
        blocks \in [1..MAPS -> RangeBlocks05]}
    \cup {[seeds |-> TestSeeds05, blocks |-> TestBlocks05]}

D05Idle ==
    /\ d05_file = [seeds |-> <<>>, blocks |-> <<>>]
    /\ d05_tables = <<>>
    /\ d05_pc = "off"
    /\ d05_result = -1

D05Init ==
    /\ d05_file \in Files05
    /\ d05_tables = <<>>
    /\ d05_pc = "parse"
    /\ d05_result = -1

D05RangesInit ==
    /\ d05_file \in RangeFiles05
    /\ d05_tables = <<>>
    /\ d05_pc = "parse"
    /\ d05_result = -1

\* Day05::part_2
D05Part2 ==
    /\ d05_pc = "parsed"
    /\ LET r == Day05_part_2(d05_file.seeds, d05_tables)
       IN /\ d05_result' = IF r.kind = "value" THEN r.value ELSE -1
          /\ d05_pc' = IF r.kind = "value" THEN "done2" ELSE "panicked2"
    /\ UNCHANGED <<d05_file, d05_tables>>

\* Day05::parse: parse_mappings on the next block of the file
D05ParseMappings ==
    /\ d05_pc = "parse"
    /\ Len(d05_tables) < MAPS
    /\ d05_tables' = Append(d05_tables, parse_mappings(d05_file.blocks[Len(d05_tables) + 1]))
    /\ UNCHANGED <<d05_file, d05_pc, d05_result>>

\* Day05::parse, lines 185-194: the Almanac is built from the seven tables
D05Parsed ==
    /\ d05_pc = "parse"
    /\ Len(d05_tables) = MAPS
    /\ d05_pc' = "parsed"
    /\ UNCHANGED <<d05_file, d05_tables, d05_result>>

\* Day05::part_1
D05Part1 ==
    /\ d05_pc = "parsed"
    /\ d05_result' = Day05_part_1(d05_file.seeds, d05_tables)
    /\ d05_pc' = "done"
    /\ UNCHANGED <<d05_file, d05_tables>>

(***************************************************************************)
(* Day 12.  The cache maps (springs, groups), compared by content, to a    *)
(* count; count_solutions returns the count and leaves the cache changed.  *)
(***************************************************************************)
cache_insert(cache, springs, groups, res) ==
    [key \in (DOMAIN cache) \cup {<<springs, groups>>} |->
        IF key = <<springs, groups>> THEN res ELSE cache[key]]

\* springs.iter().take_while(|s| !matches!(s, HotSpring::Working)).count()
maybe_broken(springs) ==
    Cardinality({k \in DOMAIN springs : \A j \in 1..k : springs[j] # "Working"})

\* a mutant of after_group: a broken spring right after the group is let through
after_group_no_gap(rest) ==
    IF rest = <<>> THEN "None" ELSE "WorkingOrUnknown"

\* the arms of `match rest.first()`
after_group(rest) ==
    IF rest = <<>> THEN "None"
    ELSE IF rest[1] = "Broken" THEN "Broken"
    ELSE "WorkingOrUnknown"

\* count_solutions: [res, cache], the count and the cache after the call
RECURSIVE count_solutions(_, _, _, _)
count_solutions(cache, springs, groups, first_is_broken) ==
    IF springs = <<>> /\ groups = <<>> THEN [res |-> 1, cache |-> cache]
    ELSE IF springs = <<>> THEN [res |-> 0, cache |-> cache]
    ELSE IF <<springs, groups>> \in DOMAIN cache
    THEN [res |-> cache[<<springs, groups>>], cache |-> cache]
    ELSE IF springs[1] = "Working"
    THEN LET r == count_solutions(cache, Tail(springs), groups, FALSE)
         IN [res |-> r.res, cache |-> cache_insert(r.cache, springs, groups, r.res)]
    ELSE IF springs[1] = "Broken" \/ first_is_broken
    THEN IF groups = <<>>
         THEN [res |-> 0, cache |-> cache_insert(cache, springs, groups, 0)]
         ELSE LET first_group_length == groups[1]
              IN IF maybe_broken(springs) < first_group_length
                 THEN [res |-> 0, cache |-> cache_insert(cache, springs, groups, 0)]
                 ELSE LET rest == SubSeq(springs, first_group_length + 1, Len(springs))
                      IN CASE after_group(rest) = "None" ->
                                 LET r == count_solutions(cache, rest, Tail(groups), FALSE)
                                 IN [res |-> r.res,
                                     cache |-> cache_insert(r.cache, springs, groups, r.res)]
                           [] after_group(rest) = "Broken" ->
                                 [res |-> 0, cache |-> cache_insert(cache, springs, groups, 0)]
                           [] after_group(rest) = "WorkingOrUnknown" ->
                                 LET r == count_solutions(cache, Tail(rest), Tail(groups), FALSE)
                                 IN [res |-> r.res,
                                     cache |-> cache_insert(r.cache, springs, groups, r.res)]
    ELSE LET if_working == count_solutions(cache, Tail(springs), groups, FALSE)
             if_broken == count_solutions(if_working.cache, springs, groups, TRUE)
             res == if_working.res + if_broken.res
         IN [res |-> res, cache |-> cache_insert(if_broken.cache, springs, groups, res)]

\* ---- inputs ----
\* tests::INPUT
TestRows12 ==
    <<[springs |-> <<"Unknown", "Unknown", "Unknown", "Working", "Broken", "Broken", "Broken">>,
       groups |-> <<1, 1, 3>>],
      [springs |-> <<"Working", "Unknown", "Unknown", "Working", "Working", "Unknown", "Unknown", "Working", "Working", "Working", "Unknown", "Broken", "Broken", "Working">>,
       groups |-> <<1, 1, 3>>],
      [springs |-> <<"Unknown", "Broken", "Unknown", "Broken", "Unknown", "Broken", "Unknown", "Broken", "Unknown", "Broken", "Unknown", "Broken", "Unknown", "Broken", "Unknown">>,
       groups |-> <<1, 3, 1, 6>>],
      [springs |-> <<"Unknown", "Unknown", "Unknown", "Unknown", "Working", "Broken", "Working", "Working", "Working", "Broken", "Working", "Working", "Working">>,
       groups |-> <<4, 1, 1>>],
      [springs |-> <<"Unknown", "Unknown", "Unknown", "Unknown", "Working", "Broken", "Broken", "Broken", "Broken", "Broken", "Broken", "Working", "Working", "Broken", "Broken", "Broken", "Broken", "Broken", "Working">>,
       groups |-> <<1, 6, 5>>],
      [springs |-> <<"Unknown", "Broken", "Broken", "Broken", "Unknown", "Unknown", "Unknown", "Unknown", "Unknown", "Unknown", "Unknown", "Unknown">>,
       groups |-> <<3, 2, 1>>]>>

HotSpring == {"Working", "Broken", "Unknown"}
Rows12 ==
    [springs : SeqsUpTo(HotSpring, MaxSprings12),
     groups : SeqsUpTo(0..MaxGroup12, MaxGroups12) \ {<<>>}]
\* one generated row, alone or followed by a row of the test input
Inputs12 ==
    {<<row>> : row \in Rows12}
    \cup {<<row, TestRows12[k]>> : row \in Rows12, k \in {1, 2}}
    \cup {TestRows12}

D12Idle ==
    /\ d12_input = <<>>
    /\ d12_counts = <<>>
    /\ d12_cache = <<>>
    /\ d12_pc = "off"
    /\ d12_result = -1

D12Init ==
    /\ d12_input \in Inputs12
    /\ d12_counts = <<>>
    /\ d12_cache = <<>>
    /\ d12_pc = "map"
    /\ d12_result = -1

\* part_1, the closure of map: a new cache, count_solutions on the row
D12Row ==
    /\ d12_pc = "map"
    /\ Len(d12_counts) < Len(d12_input)
    /\ LET row == d12_input[Len(d12_counts) + 1]
           r == count_solutions(<<>>, row.springs, row.groups, FALSE)
       IN /\ d12_counts' = Append(d12_counts, r.res)
          /\ d12_cache' = r.cache
    /\ UNCHANGED <<d12_input, d12_pc, d12_result>>

\* part_1: .sum()
D12Sum ==
    /\ d12_pc = "map"
    /\ Len(d12_counts) = Len(d12_input)
    /\ d12_result' = SumSeq(d12_counts)
    /\ d12_pc' = "done"
    /\ UNCHANGED <<d12_input, d12_counts, d12_cache>>

(***************************************************************************)
(* Day 19.  A GenericRange<u64> is kept as its least and greatest member   *)
(* (lo > hi when empty); an unbounded end is the end of u64.  The value of *)
(* a panic (unwrap on a missing workflow) is Panic19.                      *)
(***************************************************************************)
Panic19 == -1
Params19 == {"x", "m", "a", "s"}
Part19(x, m, a, s) == [x |-> x, m |-> m, a |-> a, s |-> s]
NoCond19 == [kind |-> "None", param |-> "-", value |-> 0]
Cond19(kind, param, value) == [kind |-> kind, param |-> param, value |-> value]
Goto19(w) == [kind |-> "Goto", to |-> w]
Accepted19 == [kind |-> "Accepted", to |-> "-"]
Rejected19 == [kind |-> "Rejected", to |-> "-"]
Rule19(cond, action) == [cond |-> cond, action |-> action]

\* Part::score
score(part) == part.x + part.m + part.a + part.s

\* the match on rule.cond of is_part_accepted
cond_true(cond, part) ==
    CASE cond.kind = "Lt" -> part[cond.param] < cond.value
      [] cond.kind = "Gt" -> part[cond.param] > cond.value
      [] cond.kind = "None" -> TRUE

\* "true", "false", or "panic" when a workflow is missing
RECURSIVE is_part_accepted(_, _, _)
is_part_accepted(workflow, part, workflows) ==
    IF workflow \notin DOMAIN workflows THEN "panic"
    ELSE LET rules == workflows[workflow]
             hits == {i \in DOMAIN rules : cond_true(rules[i].cond, part)}
         IN IF hits = {} THEN "false"
            ELSE LET rule == rules[CHOOSE i \in hits : \A j \in hits : i <= j]
                 IN CASE rule.action.kind = "Goto" ->
                             is_part_accepted(rule.action.to, part, workflows)
                      [] rule.action.kind = "Accepted" -> "true"
                      [] rule.action.kind = "Rejected" -> "false"

\* GenericRange::from(a..=b), from(0..0) and the four half-bounded ranges
GenericRange(lo, hi) == [lo |-> lo, hi |-> hi]
EmptyRange19 == GenericRange(0, -1)
new_less_than(value) == GenericRange(0, value - 1)
new_at_least(value) == GenericRange(value, U64_MAX)
new_greater_than(value) == GenericRange(value + 1, U64_MAX)
new_at_most(value) == GenericRange(0, value)

range_overlap19(a, b) ==
    LET lo == IF a.lo >= b.lo THEN a.lo ELSE b.lo
        hi == IF a.hi <= b.hi THEN a.hi ELSE b.hi
    IN IF a.lo > a.hi \/ b.lo > b.hi \/ lo > hi THEN EmptyRange19
       ELSE GenericRange(lo, hi)

len(range) == IF range.lo > range.hi THEN 0 ELSE range.hi - range.lo + 1

\* the range of the parts for which the condition is true
true_range(cond) ==
    IF cond.kind = "Lt" THEN new_less_than(cond.value) ELSE new_greater_than(cond.value)

\* a mutant of false_range: the false side of `<` leaves the value itself out
false_range_greater_than(cond) ==
    IF cond.kind = "Lt" THEN new_greater_than(cond.value) ELSE new_at_most(cond.value)

\* the range of the parts for which the condition is false
false_range(cond) ==
    IF cond.kind = "Lt" THEN new_at_least(cond.value) ELSE new_at_most(cond.value)

\* (x1, m1, a1, s1) and (x2, m2, a2, s2): r with the range of cond.param cut
split(r, cond, range) == [r EXCEPT ![cond.param] = range_overlap19(@, range)]

RECURSIVE combinations(_, _, _)
RECURSIVE rules_loop(_, _, _, _, _)
\* the three arms of `match &rule.action`
rule_comb(action, workflows, r) ==
    CASE action.kind = "Goto" -> combinations(action.to, workflows, r)
      [] action.kind = "Accepted" -> len(r.x) * len(r.m) * len(r.a) * len(r.s)
      [] action.kind = "Rejected" -> 0

\* `for rule in &workflow.rules`, from rule i on, with the ranges and the sum so far
rules_loop(workflows, rules, i, r, sum) ==
    IF i > Len(rules) THEN sum
    ELSE LET rule == rules[i]
         IN IF rule.cond.kind = "None"
            THEN LET comb == rule_comb(rule.action, workflows, r)
                 IN IF comb = Panic19 THEN Panic19 ELSE sum + comb
            ELSE LET true_comb == rule_comb(rule.action, workflows,
                                            split(r, rule.cond, true_range(rule.cond)))
                 IN IF true_comb = Panic19 THEN Panic19
                    ELSE rules_loop(workflows, rules, i + 1,
                                    split(r, rule.cond, false_range(rule.cond)),
                                    sum + true_comb)

\* combinations(workflow, workflows, x, m, a, s), r the four ranges
combinations(workflow, workflows, r) ==
    IF workflow \notin DOMAIN workflows THEN Panic19
    ELSE rules_loop(workflows, workflows[workflow], 1, r, 0)

\* ---- inputs ----
Conds19 == {Cond19(kind, param, value) :
               kind \in {"Lt", "Gt"}, param \in Params19, value \in 0..(MaxRating19 + 1)}
Verdicts19 == {Accepted19, Rejected19}
\* one workflow of three rules
OneWorkflow19 ==
    {[w \in {"in"} |-> <<Rule19(c1, t1), Rule19(c2, t2), Rule19(NoCond19, t3)>>] :
        c1 \in Conds19, t1 \in Verdicts19, c2 \in Conds19, t2 \in Verdicts19,
        t3 \in Verdicts19}
\* the condition of `in` sends to a second workflow
GotoFirst19 ==
    {[w \in {"in", "px"} |->
        IF w = "in" THEN <<Rule19(c1, Goto19("px")), Rule19(NoCond19, t1)>>
        ELSE <<Rule19(c2, t2), Rule19(NoCond19, t3)>>] :
        c1 \in Conds19, t1 \in Verdicts19, c2 \in Conds19, t2 \in Verdicts19,
        t3 \in Verdicts19}
\* the last rule of `in` sends to a second workflow, whose only rule has a condition
GotoLast19 ==
    {[w \in {"in", "px"} |->
        IF w = "in" THEN <<Rule19(c1, t1), Rule19(NoCond19, Goto19("px"))>>
        ELSE <<Rule19(c2, t2)>>] :
        c1 \in Conds19, t1 \in Verdicts19, c2 \in Conds19, t2 \in Verdicts19}
\* a rule names a workflow that is not listed, or `in` is not listed
Missing19 ==
    {[w \in {"in"} |-> <<Rule19(c1, Goto19("qqz")), Rule19(NoCond19, t1)>>] :
        c1 \in Conds19, t1 \in Verdicts19}
    \cup {[w \in {"px"} |-> <<Rule19(NoCond19, Accepted19)>>]}
\* three workflows: `in` and `px` both send to `qs`
Chain19 ==
    {[w \in {"in", "px", "qs"} |->
        CASE w = "in" -> <<Rule19(c1, Goto19("px")), Rule19(NoCond19, Goto19("qs"))>>
          [] w = "px" -> <<Rule19(c2, Goto19("qs")), Rule19(NoCond19, t1)>>
          [] w = "qs" -> <<Rule19(c3, t2), Rule19(NoCond19, t3)>>] :
        c1 \in {c \in Conds19 : c.param \in {"x", "m"} /\ c.value \in 1..MaxRating19},
        c2 \in Conds19,
        c3 \in {c \in Conds19 : c.value = 2},
        t1 \in Verdicts19, t2 \in Verdicts19, t3 \in Verdicts19}
Workflows19 == OneWorkflow19 \cup GotoFirst19 \cup GotoLast19 \cup Chain19 \cup Missing19
Parts19 == <<Part19(1, 2, MaxRating19, 1), Part19(MaxRating19, 1, 2, 2)>>
\* every part with the four ratings in 1..=MaxRating19
AllParts19 ==
    {Part19(x, m, a, s) : x \in 1..MaxRating19, m \in 1..MaxRating19,
                          a \in 1..MaxRating19, s \in 1..MaxRating19}

D19Idle ==
    /\ d19_workflows = <<>>
    /\ d19_parts = <<>>
    /\ d19_pc = "off"
    /\ d19_result = -1

D19Init ==
    /\ d19_workflows \in Workflows19
    /\ d19_parts = Parts19
    /\ d19_pc = "parsed"
    /\ d19_result = -1

\* part_1: the scores of the accepted parts, summed
D19Part1 ==
    /\ d19_pc = "parsed"
    /\ LET verdict == [k \in DOMAIN d19_parts |->
                          is_part_accepted("in", d19_parts[k], d19_workflows)]
       IN IF \E k \in DOMAIN verdict : verdict[k] = "panic"
          THEN d19_pc' = "panicked1" /\ d19_result' = -1
          ELSE /\ d19_pc' = "done1"
               /\ d19_result' = SumSeq([k \in DOMAIN d19_parts |->
                                    IF verdict[k] = "true" THEN score(d19_parts[k]) ELSE 0])
    /\ UNCHANGED <<d19_workflows, d19_parts>>

\* part_2: combinations from "in" with the four full ranges
D19Part2 ==
    /\ d19_pc = "parsed"
    /\ LET full == GenericRange(1, MaxRating19)
           res == combinations("in", d19_workflows, [x |-> full, m |-> full, a |-> full, s |-> full])
       IN IF res = Panic19
          THEN d19_pc' = "panicked2" /\ d19_result' = -1
          ELSE d19_pc' = "done2" /\ d19_result' = res
    /\ UNCHANGED <<d19_workflows, d19_parts>>

(***************************************************************************)
(* Day 17.  grid[y + 1][x + 1] is the grid[y][x] of the code.  SIZE, 13    *)
(* under cfg(test) and 141 otherwise, is the side of the square grid the   *)
(* build is for.                                                           *)
(***************************************************************************)
SIZE(grid) == Len(grid)

Dir17(name, steps) == [name |-> name, steps |-> steps]
Candidate(dir, x, y) == [dir |-> dir, x |-> x, y |-> y]

\* Dir::steps
steps(dir) == dir.steps

Abs17(n) == IF n < 0 THEN 0 - n ELSE n
\* Candidate::distance, the Manhattan distance
distance(self, other) == Abs17(self.x - other.x) + Abs17(self.y - other.y)

\* the start block seen as the first block of a run to the right as well
start_right_steps(self) ==
    1 + (IF self.x = 0 /\ self.y = 0 /\ self.dir.name = "Down" THEN 1 ELSE 0)

\* the array `candidates` of successors: straight on and the two turns
candidates(self) ==
    LET n == self.dir.steps
        x == self.x
        y == self.y
    IN CASE self.dir.name = "Up" ->
              <<Candidate(Dir17("Up", n + 1), x, y - 1),
                Candidate(Dir17("Left", 1), x - 1, y),
                Candidate(Dir17("Right", 1), x + 1, y)>>
         [] self.dir.name = "Right" ->
              <<Candidate(Dir17("Right", n + 1), x + 1, y),
                Candidate(Dir17("Up", 1), x, y - 1),
                Candidate(Dir17("Down", 1), x, y + 1)>>
         [] self.dir.name = "Down" ->
              <<Candidate(Dir17("Down", n + 1), x, y + 1),
                Candidate(Dir17("Right", start_right_steps(self)), x + 1, y),
                Candidate(Dir17("Left", 1), x - 1, y)>>
         [] self.dir.name = "Left" ->
              <<Candidate(Dir17("Left", n + 1), x - 1, y),
                Candidate(Dir17("Up", 1), x, y - 1),
                Candidate(Dir17("Down", 1), x, y + 1)>>

\* Candidate::successors: the candidates inside the grid whose run is at
\* most 3, each with the value of its block
successors(self, grid) ==
    LET valid(c) == /\ steps(c.dir) <= 3
                    /\ c.x >= 0 /\ c.x < SIZE(grid)
                    /\ c.y >= 0 /\ c.y < SIZE(grid)
        kept == SelectSeq(candidates(self), valid)
    IN [k \in DOMAIN kept |-> <<kept[k], grid[kept[k].y + 1][kept[k].x + 1]>>]

\* the closure `success` of part_1
success(c, goal) == c.x = goal.x /\ c.y = goal.y

\* pathfinding::astar by its contract: the least cost of a path of
\* successors from start to a success node, None when there is none.  The
\* heuristic, distance to the goal, never overestimates because every block
\* costs at least 1.  levels[c + 1] is the set of nodes whose least cost is c;
\* a move costs 1..9.
reached_with(grid, levels, c) ==
    UNION {{s[1] : s \in {t \in Range(successors(p, grid)) : t[2] = c - k}} :
            <<k, p>> \in UNION {{<<j, q>> : q \in levels[j + 1]} :
                                  j \in {i \in 0..(c - 1) : i >= c - 9}}}

RECURSIVE astar_levels(_, _, _, _)
astar_levels(grid, goal, levels, seen) ==
    LET c == Len(levels) - 1
    IN IF \E n \in levels[c + 1] : success(n, goal) THEN c
       ELSE IF c >= 9 /\ \A j \in (c - 8)..c : levels[j + 1] = {} THEN -1
       ELSE LET new == reached_with(grid, levels, c + 1) \ seen
            IN astar_levels(grid, goal, Append(levels, new), seen \cup new)

astar(start, grid, goal) == astar_levels(grid, goal, <<{start}>>, {start})

\* part_1: astar(..).unwrap().1, -1 for the panic of unwrap
Day17_part_1(input) ==
    astar(Candidate(Dir17("Down", 1), 0, 0), input,
          Candidate(Dir17("Down", 0), SIZE(input) - 1, SIZE(input) - 1))

\* ---- inputs ----
\* tests::INPUT
TestGrid17 ==
    <<<<2, 4, 1, 3, 4, 3, 2, 3, 1, 1, 3, 2, 3>>,
      <<3, 2, 1, 5, 4, 5, 3, 5, 3, 5, 6, 2, 3>>,
      <<3, 2, 5, 5, 2, 4, 5, 6, 5, 4, 2, 5, 4>>,
      <<3, 4, 4, 6, 5, 8, 5, 8, 4, 5, 4, 5, 2>>,
      <<4, 5, 4, 6, 6, 5, 7, 8, 6, 7, 5, 3, 6>>,
      <<1, 4, 3, 8, 5, 9, 8, 7, 9, 8, 4, 5, 4>>,
      <<4, 4, 5, 7, 8, 7, 6, 9, 8, 7, 7, 6, 6>>,
      <<3, 6, 3, 7, 8, 7, 7, 9, 7, 9, 6, 5, 3>>,
      <<4, 6, 5, 4, 9, 6, 7, 9, 8, 6, 8, 8, 7>>,
      <<4, 5, 6, 4, 6, 7, 9, 9, 8, 6, 4, 5, 3>>,
      <<1, 2, 2, 4, 6, 8, 6, 8, 6, 5, 5, 6, 3>>,
      <<2, 5, 4, 6, 5, 4, 8, 8, 8, 7, 7, 3, 5>>,
      <<4, 3, 2, 2, 6, 7, 4, 6, 5, 5, 5, 3, 3>>>>

\* a grid of the side of the test build: a staircase of blocks of value 1,
\* three to the right and three down four times over, every other block 9
StairGrid17 ==
    [r \in 1..13 |-> [c \in 1..13 |->
        LET x == c - 1
            y == r - 1
        IN IF \/ (y % 3 = 0 /\ x >= y /\ x <= y + 3)
              \/ (x % 3 = 0 /\ x >= 3 /\ y >= x - 3 /\ y <= x)
           THEN 1 ELSE 9]]

\* generated grids of side MaxSize17: the blocks of `vary` are 1 or 9 each,
\* the last column and the last row are 1, every other block is 5
Grid17(low, vary) ==
    [r \in 1..MaxSize17 |-> [c \in 1..MaxSize17 |->
        IF <<c - 1, r - 1>> \in vary
        THEN (IF <<c - 1, r - 1>> \in low THEN 1 ELSE 9)
        ELSE IF c = MaxSize17 \/ r = MaxSize17 THEN 1 ELSE 5]]
\* the first two rows, the start block left out
TopRows17 ==
    {<<x, y>> : x \in 0..(MaxSize17 - 1), y \in {0, 1}} \ {<<0, 0>>}
\* the first two columns, the start block left out
LeftColumns17 ==
    {<<x, y>> : x \in {0, 1}, y \in 0..(MaxSize17 - 1)} \ {<<0, 0>>}
Grids17 ==
    {Grid17(low, TopRows17) : low \in SUBSET TopRows17}
    \cup {Grid17(low, LeftColumns17) : low \in SUBSET LeftColumns17}
    \cup {TestGrid17, StairGrid17}

D17Idle ==
    /\ d17_input = <<>>
    /\ d17_pc = "off"
    /\ d17_result = -1

D17Init ==
    /\ d17_input \in Grids17
    /\ d17_pc = "parsed"
    /\ d17_result = -1

D17Part1 ==
    /\ d17_pc = "parsed"
    /\ LET res == Day17_part_1(d17_input)
       IN IF res = -1
          THEN d17_pc' = "panicked" /\ d17_result' = -1
          ELSE d17_pc' = "done" /\ d17_result' = res
    /\ UNCHANGED d17_input

(***************************************************************************)
(* days/mod.rs: Day::parse_file and Day::run_day, for Day15.               *)
(***************************************************************************)
FileAlphabet == {CH_r, EQUALS, MINUS, DIGIT1, COMMA, NL}

\* Day::parse_file: read_to_string(fp)? then Self::parse(..)?
parse_file(fs) ==
    IF ~fs.exists THEN [ok |-> FALSE, err |-> "Io", value |-> <<>>, parsed |-> 0]
    ELSE LET r == Day15_parse(fs.content)
         IN IF r.ok THEN [ok |-> TRUE, err |-> "None", value |-> r.value, parsed |-> 1]
            ELSE [ok |-> FALSE, err |-> "Parse", value |-> <<>>, parsed |-> 1]

RunIdle ==
    /\ run_fs = [exists |-> FALSE, content |-> <<>>]
    /\ run_pc = "idle"
    /\ run_input = <<>>
    /\ run_err = "None"
    /\ run_out = <<>>
    /\ run_calls = [parse_file |-> 0, parse |-> 0, part_1 |-> 0, part_2 |-> 0]
    /\ run_args = <<>>

RunInit ==
    /\ run_fs \in {[exists |-> FALSE, content |-> <<>>]}
                  \cup {[exists |-> TRUE, content |-> c] : c \in SeqsUpTo(FileAlphabet, MaxFileLen)}
    /\ run_pc = "start"
    /\ run_input = <<>>
    /\ run_err = "None"
    /\ run_out = <<>>
    /\ run_calls = [parse_file |-> 0, parse |-> 0, part_1 |-> 0, part_2 |-> 0]
    /\ run_args = <<>>

\* match Self::parse_file(fp)
RunParseFile ==
    /\ run_pc = "start"
    /\ LET r == parse_file(run_fs)
       IN /\ run_calls' = [run_calls EXCEPT !.parse_file = @ + 1, !.parse = @ + r.parsed]
          /\ run_input' = r.value
          /\ run_err' = r.err
          /\ run_pc' = IF r.ok THEN "part_1" ELSE "error"
    /\ UNCHANGED <<run_fs, run_out, run_args>>

\* a mutant of RunPrintError: after printing the error, run_day goes on to part 1
RunPrintError_fallthrough ==
    /\ run_pc = "error"
    /\ run_out' = Append(run_out, [kind |-> "Error", value |-> run_err])
    /\ run_pc' = "part_1"
    /\ UNCHANGED <<run_fs, run_input, run_err, run_calls, run_args>>

\* Err(e) => println!("{e:?}")
RunPrintError ==
    /\ run_pc = "error"
    /\ run_out' = Append(run_out, [kind |-> "Error", value |-> run_err])
    /\ run_pc' = "done"
    /\ UNCHANGED <<run_fs, run_input, run_err, run_calls, run_args>>

\* a mutant of RunPart1: part_1 is computed but its lines are not printed
\* before part_2 is entered
RunPart1_unprinted ==
    /\ run_pc = "part_1"
    /\ run_calls' = [run_calls EXCEPT !.part_1 = @ + 1]
    /\ run_args' = Append(run_args, [part |-> 1, input |-> run_input, printed |-> run_out])
    /\ run_pc' = "part_2"
    /\ UNCHANGED <<run_fs, run_input, run_err, run_out>>

\* println!("Part 1: {}", Self::part_1(&input)) and the timing line
RunPart1 ==
    /\ run_pc = "part_1"
    /\ run_calls' = [run_calls EXCEPT !.part_1 = @ + 1]
    /\ run_args' = Append(run_args, [part |-> 1, input |-> run_input, printed |-> run_out])
    /\ run_out' = run_out \o <<[kind |-> "Part 1", value |-> Day15_part_1(run_input)],
                                [kind |-> "Part 1 took", value |-> 0]>>
    /\ run_pc' = "part_2"
    /\ UNCHANGED <<run_fs, run_input, run_err>>

\* println!("Part 2: {}", Self::part_2(&input)) and the timing line; a panic
\* inside part_2 unwinds run_day before anything is printed
RunPart2 ==
    /\ run_pc = "part_2"
    /\ run_calls' = [run_calls EXCEPT !.part_2 = @ + 1]
    /\ run_args' = Append(run_args, [part |-> 2, input |-> run_input, printed |-> run_out])
    /\ LET r == Day15_part_2(run_input)
       IN IF r.panic
          THEN run_pc' = "panicked" /\ run_out' = run_out
          ELSE /\ run_pc' = "done"
               /\ run_out' = run_out \o <<[kind |-> "Part 2", value |-> r.value],
                                           [kind |-> "Part 2 took", value |-> 0]>>
    /\ UNCHANGED <<run_fs, run_input, run_err>>

(***************************************************************************)
(* Specifications                                                          *)
(***************************************************************************)
InitRun == RunInit /\ D15Idle /\ D14Idle /\ D20Idle /\ D16Idle /\ D22Idle /\ D05Idle /\ D12Idle /\ D19Idle /\ D17Idle
NextRun ==
    \/ RunParseFile /\ UNCHANGED <<d15Vars, d14Vars, d20Vars, d16Vars, d22Vars, d05Vars, d12Vars, d19Vars, d17Vars>>
    \/ RunPrintError /\ UNCHANGED <<d15Vars, d14Vars, d20Vars, d16Vars, d22Vars, d05Vars, d12Vars, d19Vars, d17Vars>>
    \/ RunPart1 /\ UNCHANGED <<d15Vars, d14Vars, d20Vars, d16Vars, d22Vars, d05Vars, d12Vars, d19Vars, d17Vars>>
    \/ RunPart2 /\ UNCHANGED <<d15Vars, d14Vars, d20Vars, d16Vars, d22Vars, d05Vars, d12Vars, d19Vars, d17Vars>>
SpecRun == InitRun /\ [][NextRun]_vars

Init15 == D15Init /\ RunIdle /\ D14Idle /\ D20Idle /\ D16Idle /\ D22Idle /\ D05Idle /\ D12Idle /\ D19Idle /\ D17Idle
Next15 ==
    \/ D15Step /\ UNCHANGED <<runVars, d14Vars, d20Vars, d16Vars, d22Vars, d05Vars, d12Vars, d19Vars, d17Vars>>
    \/ D15Return /\ UNCHANGED <<runVars, d14Vars, d20Vars, d16Vars, d22Vars, d05Vars, d12Vars, d19Vars, d17Vars>>
Spec15 == Init15 /\ [][Next15]_vars

\* Day14, one call of either part on each input
Init14 == D14Init /\ RunIdle /\ D15Idle /\ D20Idle /\ D16Idle /\ D22Idle /\ D05Idle /\ D12Idle /\ D19Idle /\ D17Idle
Next14 ==
    \/ d14_log = <<>> /\ D14Part1 /\ UNCHANGED <<runVars, d15Vars, d20Vars, d16Vars, d22Vars, d05Vars, d12Vars, d19Vars, d17Vars>>
    \/ d14_log = <<>> /\ D14Part2Start /\ UNCHANGED <<runVars, d15Vars, d20Vars, d16Vars, d22Vars, d05Vars, d12Vars, d19Vars, d17Vars>>
    \/ D14Cycle /\ UNCHANGED <<runVars, d15Vars, d20Vars, d16Vars, d22Vars, d05Vars, d12Vars, d19Vars, d17Vars>>
    \/ D14Part2Return /\ UNCHANGED <<runVars, d15Vars, d20Vars, d16Vars, d22Vars, d05Vars, d12Vars, d19Vars, d17Vars>>
Spec14 == Init14 /\ [][Next14]_vars

\* Day20, one call of part_1 on each input
Init20 == D20InitWith(Inputs20) /\ RunIdle /\ D15Idle /\ D14Idle /\ D16Idle /\ D22Idle /\ D05Idle /\ D12Idle /\ D19Idle /\ D17Idle
Next20 ==
    \/ d20_log = <<>> /\ D20Part1Start /\ UNCHANGED <<runVars, d15Vars, d14Vars, d16Vars, d22Vars, d05Vars, d12Vars, d19Vars, d17Vars>>
    \/ D20Part1Press /\ UNCHANGED <<runVars, d15Vars, d14Vars, d16Vars, d22Vars, d05Vars, d12Vars, d19Vars, d17Vars>>
    \/ D20Part1Return /\ UNCHANGED <<runVars, d15Vars, d14Vars, d16Vars, d22Vars, d05Vars, d12Vars, d19Vars, d17Vars>>
Spec20 == Init20 /\ [][Next20]_vars

\* Day14 and Day20, up to MaxCalls calls of the parts, in any order, on the
\* same parsed input
InitPure ==
    \/ D14Init /\ D20Idle /\ RunIdle /\ D15Idle /\ D16Idle /\ D22Idle /\ D05Idle /\ D12Idle /\ D19Idle /\ D17Idle
    \/ D20InitWith(PureInputs20) /\ D14Idle /\ RunIdle /\ D15Idle /\ D16Idle /\ D22Idle /\ D05Idle /\ D12Idle /\ D19Idle /\ D17Idle
NextPure ==
    \/ D14Part1 /\ UNCHANGED <<runVars, d15Vars, d20Vars, d16Vars, d22Vars, d05Vars, d12Vars, d19Vars, d17Vars>>
    \/ D14Part2Start /\ UNCHANGED <<runVars, d15Vars, d20Vars, d16Vars, d22Vars, d05Vars, d12Vars, d19Vars, d17Vars>>
    \/ D14Cycle /\ UNCHANGED <<runVars, d15Vars, d20Vars, d16Vars, d22Vars, d05Vars, d12Vars, d19Vars, d17Vars>>
    \/ D14Part2Return /\ UNCHANGED <<runVars, d15Vars, d20Vars, d16Vars, d22Vars, d05Vars, d12Vars, d19Vars, d17Vars>>
    \/ D20Part1Start /\ UNCHANGED <<runVars, d15Vars, d14Vars, d16Vars, d22Vars, d05Vars, d12Vars, d19Vars, d17Vars>>
    \/ D20Part1Press /\ UNCHANGED <<runVars, d15Vars, d14Vars, d16Vars, d22Vars, d05Vars, d12Vars, d19Vars, d17Vars>>
    \/ D20Part1Return /\ UNCHANGED <<runVars, d15Vars, d14Vars, d16Vars, d22Vars, d05Vars, d12Vars, d19Vars, d17Vars>>
    \/ D20Part2Start /\ UNCHANGED <<runVars, d15Vars, d14Vars, d16Vars, d22Vars, d05Vars, d12Vars, d19Vars, d17Vars>>
    \/ D20Part2Reset /\ UNCHANGED <<runVars, d15Vars, d14Vars, d16Vars, d22Vars, d05Vars, d12Vars, d19Vars, d17Vars>>
    \/ D20Part2Press /\ UNCHANGED <<runVars, d15Vars, d14Vars, d16Vars, d22Vars, d05Vars, d12Vars, d19Vars, d17Vars>>
    \/ D20Part2Return /\ UNCHANGED <<runVars, d15Vars, d14Vars, d16Vars, d22Vars, d05Vars, d12Vars, d19Vars, d17Vars>>
SpecPure == InitPure /\ [][NextPure]_vars

Init16 == D16Init /\ RunIdle /\ D15Idle /\ D14Idle /\ D20Idle /\ D22Idle /\ D05Idle /\ D12Idle /\ D19Idle /\ D17Idle
Next16 ==
    \/ D16Step /\ UNCHANGED <<runVars, d15Vars, d14Vars, d20Vars, d22Vars, d05Vars, d12Vars, d19Vars, d17Vars>>
    \/ D16Return /\ UNCHANGED <<runVars, d15Vars, d14Vars, d20Vars, d22Vars, d05Vars, d12Vars, d19Vars, d17Vars>>
Spec16 == Init16 /\ [][Next16]_vars

InitIter == ItInit /\ RunIdle /\ D15Idle /\ D14Idle /\ D20Idle /\ D16Idle /\ D05Idle /\ D12Idle /\ D19Idle /\ D17Idle
NextIter == ItNext /\ UNCHANGED <<runVars, d15Vars, d14Vars, d20Vars, d16Vars, d05Vars, d12Vars, d19Vars, d17Vars>>
SpecIter == InitIter /\ [][NextIter]_vars

Init22 == D22Init /\ RunIdle /\ D15Idle /\ D14Idle /\ D20Idle /\ D16Idle /\ D05Idle /\ D12Idle /\ D19Idle /\ D17Idle
Next22 ==
    \/ D22Part1Start /\ UNCHANGED <<runVars, d15Vars, d14Vars, d20Vars, d16Vars, d05Vars, d12Vars, d19Vars, d17Vars>>
    \/ D22SettleBrick /\ UNCHANGED <<runVars, d15Vars, d14Vars, d20Vars, d16Vars, d05Vars, d12Vars, d19Vars, d17Vars>>
    \/ D22SettleSort /\ UNCHANGED <<runVars, d15Vars, d14Vars, d20Vars, d16Vars, d05Vars, d12Vars, d19Vars, d17Vars>>
    \/ D22CountBrick /\ UNCHANGED <<runVars, d15Vars, d14Vars, d20Vars, d16Vars, d05Vars, d12Vars, d19Vars, d17Vars>>
    \/ D22Return /\ UNCHANGED <<runVars, d15Vars, d14Vars, d20Vars, d16Vars, d05Vars, d12Vars, d19Vars, d17Vars>>
Spec22 == Init22 /\ [][Next22]_vars

Init05 == D05Init /\ RunIdle /\ D15Idle /\ D14Idle /\ D20Idle /\ D16Idle /\ D22Idle /\ D12Idle /\ D19Idle /\ D17Idle
Next05 ==
    \/ D05ParseMappings /\ UNCHANGED <<runVars, d15Vars, d14Vars, d20Vars, d16Vars, d22Vars, d12Vars, d19Vars, d17Vars>>
    \/ D05Parsed /\ UNCHANGED <<runVars, d15Vars, d14Vars, d20Vars, d16Vars, d22Vars, d12Vars, d19Vars, d17Vars>>
    \/ D05Part1 /\ UNCHANGED <<runVars, d15Vars, d14Vars, d20Vars, d16Vars, d22Vars, d12Vars, d19Vars, d17Vars>>
Spec05 == Init05 /\ [][Next05]_vars

Init05Ranges == D05RangesInit /\ RunIdle /\ D15Idle /\ D14Idle /\ D20Idle /\ D16Idle /\ D22Idle /\ D12Idle /\ D19Idle /\ D17Idle
Next05Ranges ==
    \/ D05ParseMappings /\ UNCHANGED <<runVars, d15Vars, d14Vars, d20Vars, d16Vars, d22Vars, d12Vars, d19Vars, d17Vars>>
    \/ D05Parsed /\ UNCHANGED <<runVars, d15Vars, d14Vars, d20Vars, d16Vars, d22Vars, d12Vars, d19Vars, d17Vars>>
    \/ D05Part2 /\ UNCHANGED <<runVars, d15Vars, d14Vars, d20Vars, d16Vars, d22Vars, d12Vars, d19Vars, d17Vars>>
Spec05Ranges == Init05Ranges /\ [][Next05Ranges]_vars

Init12 == D12Init /\ RunIdle /\ D15Idle /\ D14Idle /\ D20Idle /\ D16Idle /\ D22Idle /\ D05Idle /\ D19Idle /\ D17Idle
Next12 ==
    \/ D12Row /\ UNCHANGED <<runVars, d15Vars, d14Vars, d20Vars, d16Vars, d22Vars, d05Vars, d19Vars, d17Vars>>
    \/ D12Sum /\ UNCHANGED <<runVars, d15Vars, d14Vars, d20Vars, d16Vars, d22Vars, d05Vars, d19Vars, d17Vars>>
Spec12 == Init12 /\ [][Next12]_vars

Init19 == D19Init /\ RunIdle /\ D15Idle /\ D14Idle /\ D20Idle /\ D16Idle /\ D22Idle /\ D05Idle /\ D12Idle /\ D17Idle
Next19 ==
    \/ D19Part1 /\ UNCHANGED <<runVars, d15Vars, d14Vars, d20Vars, d16Vars, d22Vars, d05Vars, d12Vars, d17Vars>>
    \/ D19Part2 /\ UNCHANGED <<runVars, d15Vars, d14Vars, d20Vars, d16Vars, d22Vars, d05Vars, d12Vars, d17Vars>>
Spec19 == Init19 /\ [][Next19]_vars

Init17 == D17Init /\ RunIdle /\ D15Idle /\ D14Idle /\ D20Idle /\ D16Idle /\ D22Idle /\ D05Idle /\ D12Idle /\ D19Idle
Next17 ==
    \/ D17Part1 /\ UNCHANGED <<runVars, d15Vars, d14Vars, d20Vars, d16Vars, d22Vars, d05Vars, d12Vars, d19Vars>>
Spec17 == Init17 /\ [][Next17]_vars

(***************************************************************************)
(* Claims                                                                  *)
(***************************************************************************)

\* C1: when parse_file returns an error (file unreadable or parse failure),
\* run_day calls parse_file once, prints that error once, never enters
\* part_1 or part_2, prints no "Part" line and stops.
C1_ErrorPrintedOnce ==
    run_err # "None" =>
        /\ run_calls.parse_file = 1
        /\ run_calls.part_1 = 0 /\ run_calls.part_2 = 0
        /\ run_args = <<>>
        /\ run_pc \in {"error", "done"}
        /\ run_pc = "error" => run_out = <<>>
        /\ run_pc = "done" => run_out = <<[kind |-> "Error", value |-> run_err]>>

C1_Witness ==
    /\ run_pc = "done"
    /\ run_err = "Parse"
    /\ run_fs.exists
    /\ run_out = <<[kind |-> "Error", value |-> "Parse"]>>

\* C2: on a successful parse run_day is a fixed linear sequence: parse is
\* called once, part_1 once, its result is printed before part_2 is entered,
\* part_2 once, and both parts receive the parsed input.
C2_LinearSequence ==
    /\ run_calls.parse <= 1 /\ run_calls.part_1 <= 1 /\ run_calls.part_2 <= 1
    /\ \A i \in 1..Len(run_args) :
          /\ run_args[i].part = i
          /\ run_args[i].input = run_input
          /\ run_args[i].input = Day15_parse(run_fs.content).value
          /\ run_args[i].part = 2 =>
                \E k \in 1..Len(run_args[i].printed) :
                    run_args[i].printed[k] =
                        [kind |-> "Part 1", value |-> Day15_part_1(run_args[1].input)]
    /\ (run_err = "None" /\ run_pc \in {"done", "panicked"}) =>
          /\ run_calls.parse = 1 /\ run_calls.part_1 = 1 /\ run_calls.part_2 = 1
          /\ Len(run_args) = 2
    /\ (run_err = "None" /\ run_pc = "done") =>
          /\ Len(run_out) = 4
          /\ run_out[1].kind = "Part 1" /\ run_out[3].kind = "Part 2"

C2_Witness ==
    /\ run_pc = "done"
    /\ run_err = "None"
    /\ run_calls = [parse_file |-> 1, parse |-> 1, part_1 |-> 1, part_2 |-> 1]
    /\ Len(run_out) = 4
    /\ run_out[1].value > 0

\* ---- C4: the reference, written from the statement of the claim ----
RefOpPos(s) ==
    CHOOSE p \in 1..Len(s) :
        /\ s[p] \in {MINUS, EQUALS}
        /\ \A q \in 1..(p - 1) : s[q] \notin {MINUS, EQUALS}
RefLabel(s) == SubSeq(s, 1, RefOpPos(s) - 1)
RefFocal(s) == DecValue(0, SubSeq(s, RefOpPos(s) + 1, Len(s)))
RefHasLabel(box, label) == \E i \in 1..Len(box) : box[i].label = label

RefApply(bx, s) ==
    LET label == RefLabel(s)
        b == hash_string(label)
    IN IF s[RefOpPos(s)] = EQUALS
       THEN IF RefHasLabel(bx[b], label)
            THEN [bx EXCEPT ![b] =
                    [i \in 1..Len(bx[b]) |->
                        IF bx[b][i].label = label
                        THEN [label |-> label, focal |-> RefFocal(s)]
                        ELSE bx[b][i]]]
            ELSE [bx EXCEPT ![b] = bx[b] \o <<[label |-> label, focal |-> RefFocal(s)]>>]
       ELSE [bx EXCEPT ![b] = SelectSeq(bx[b], LAMBDA l : l.label # label)]

RECURSIVE RefBoxes(_, _)
RefBoxes(input, n) ==
    IF n = 0 THEN [b \in 0..255 |-> <<>>]
    ELSE RefApply(RefBoxes(input, n - 1), input[n])

RECURSIVE RefSumSlots(_, _)
RefSumSlots(bx, S) ==
    IF S = {} THEN 0
    ELSE LET e == CHOOSE e \in S : TRUE
         IN (e[1] + 1) * e[2] * bx[e[1]][e[2]].focal + RefSumSlots(bx, S \ {e})

RefPower(bx) ==
    RefSumSlots(bx, UNION {{<<b, j>> : j \in 1..Len(bx[b])} : b \in 0..255})

\* C4: Day15::part_2 returns the sum over every box b and 1-based slot j of
\* (b + 1) * j * focal, the boxes being those obtained by applying the
\* instructions in order to 256 empty boxes: label=f sets the focal length of
\* the lens with that label or appends a new lens, label- removes it.
C4_FocusingPower ==
    d15_result # -1 =>
        d15_result = RefPower(RefBoxes(d15_input, Len(d15_input)))

C4_Witness ==
    /\ d15_result > 0
    /\ \E b \in 0..255 : Len(d15_boxes[b]) >= 2
    /\ \E i, j \in 1..Len(d15_input) :
          /\ i < j
          /\ d15_input[i] # d15_input[j]
          /\ RefLabel(d15_input[i]) = RefLabel(d15_input[j])
          /\ d15_input[i][RefOpPos(d15_input[i])] = EQUALS
          /\ d15_input[j][RefOpPos(d15_input[j])] = EQUALS
    /\ \E i \in 1..Len(d15_input) : d15_input[i][RefOpPos(d15_input[i])] = MINUS

\* ---- C5: direct simulation, one spin cycle after the other ----
RECURSIVE DirectAfter(_, _)
DirectAfter(platform, n) ==
    IF n = 0 THEN platform ELSE spin_cycle(DirectAfter(platform, n - 1))

\* the grid the cache holds under index k
CachedAt(k) == CHOOSE g \in DOMAIN d14_cache : d14_cache[g] = k

\* the index under which the state reached by the last cycle was cached
RepeatedIndex ==
    d14_cache[spin_cycle([d14_input EXCEPT !.grid = CachedAt(d14_i - 1)]).grid]

\* index k holds the state after k + 1 cycles; the states from RepeatedIndex
\* on repeat with period d14_i - RepeatedIndex, so the state after
\* SPIN_CYCLES cycles is held under this index
RefIndex ==
    RepeatedIndex + ((SPIN_CYCLES - 1 - RepeatedIndex) % (d14_i - RepeatedIndex))

\* C5: the state part_2 restores from its cache at the first repeated state is
\* the state that 1,000,000,000 spin cycles (North, West, South, East each)
\* simulated directly reach, and part_2 returns its north load.
C5_RestoredIsBillionth ==
    /\ d14_pc = "restored" =>
          \* the cache holds the directly simulated states, index k after k + 1 cycles
          /\ \A g \in DOMAIN d14_cache : g = DirectAfter(d14_input, d14_cache[g] + 1).grid
          /\ SPIN_CYCLES - 1 >= RepeatedIndex
          \* past the repeat, direct simulation stays on the cycle
          /\ \A k \in 0..ExtraCycles :
                DirectAfter(d14_input, d14_i + 1 + k).grid =
                    CachedAt(RepeatedIndex
                             + ((d14_i + k - RepeatedIndex) % (d14_i - RepeatedIndex)))
          /\ d14_platform.grid = CachedAt(RefIndex)
    /\ (d14_pc = "idle" /\ d14_log # <<>> /\ d14_log[Len(d14_log)].part = 2) =>
          d14_log[Len(d14_log)].value =
              total_load([d14_input EXCEPT !.grid = CachedAt(RefIndex)], "North")

C5_Witness ==
    /\ d14_pc = "restored"
    /\ RepeatedIndex >= 1
    /\ d14_i - RepeatedIndex >= 2
    /\ d14_platform.grid # CachedAt(d14_i - 1)

\* C6: Day20::part_1 returns (low pulses sent) * (high pulses sent) over 1000
\* consecutive button presses from the fresh state, module state carried
\* from press to press, the button's own pulse counted once per press.
C6_Returned == d20_pc = "idle" /\ d20_log # <<>> /\ d20_log[Len(d20_log)].part = 1
C6_SameProduct ==
    C6_Returned => d20_log[Len(d20_log)].value = d20_ref.low * d20_ref.high
C6_PulseProduct ==
    /\ d20_pc # "panicked"
    /\ C6_SameProduct

\* C3: part_1 and part_2 of Day14 and Day20 leave the parsed input as it
\* was, so every call of a part on the same input returns the same value:
\* part_2 after part_1 returns what part_2 alone returns, and a part called
\* twice returns the same value twice.
InputKept(log) == \A k \in DOMAIN log : log[k].after = log[k].before
SameValues(log) ==
    \A j, k \in DOMAIN log : log[j].part = log[k].part => log[j].value = log[k].value
SameInput(log) == \A j, k \in DOMAIN log : log[j].before = log[k].before
C3_Witness20 ==
    /\ Len(d20_log) = 3
    /\ d20_log[1].part = 2 /\ d20_log[2].part = 1 /\ d20_log[3].part = 2
    /\ \E n \in Names20(d20_input) : d20_graph[n] # d20_input.modules[n]

\* C7: get_beams returns exactly the tiles the beam and the beams split off
\* from it pass through, and Day16::part_1 is the number of those tiles for
\* the beam entering the top-left tile heading right.
\* The reference: a beam is a tile and a heading (dx, dy); the headings out
\* of a tile follow the rules of the claim.
RefHeading(dir) ==
    CASE dir = "Right" -> <<1, 0>> [] dir = "Left" -> <<-1, 0>>
      [] dir = "Bottom" -> <<0, 1>> [] dir = "Top" -> <<0, -1>>
RefOut(tile, h) ==
    CASE tile = "Slash" -> {<<0 - h[2], 0 - h[1]>>}
      [] tile = "BackSlash" -> {<<h[2], h[1]>>}
      [] tile = "Vertical" /\ h[1] # 0 -> {<<0, -1>>, <<0, 1>>}
      [] tile = "Horizontal" /\ h[2] # 0 -> {<<-1, 0>>, <<1, 0>>}
      [] OTHER -> {h}
RefSuccessors(grid, b) ==
    {[x |-> b.x + h[1], y |-> b.y + h[2], h |-> h] : h \in RefOut(grid.grid[Point16(b.x, b.y)], b.h)}
    \cap [x : 0..(grid.width - 1), y : 0..(grid.height - 1), h : {<<1, 0>>, <<-1, 0>>, <<0, 1>>, <<0, -1>>}]
RECURSIVE RefClosure(_, _)
RefClosure(grid, B) ==
    LET more == UNION {RefSuccessors(grid, b) : b \in B}
    IN IF more \subseteq B THEN B ELSE RefClosure(grid, B \cup more)
RefBeams(grid, start) ==
    RefClosure(grid, {[x |-> start.pos.x, y |-> start.pos.y, h |-> RefHeading(start.dir)]})
RefEnergized(grid, start) == {Point16(b.x, b.y) : b \in RefBeams(grid, start)}
C7_BeamsAreEnergized ==
    d16_pc = "done" =>
        /\ DOMAIN d16_beams = RefEnergized(d16_grid, d16_start)
        /\ \A p \in DOMAIN d16_beams :
              /\ {RefHeading(d16_beams[p][k]) : k \in DOMAIN d16_beams[p]}
                    = {b.h : b \in {c \in RefBeams(d16_grid, d16_start) : Point16(c.x, c.y) = p}}
              /\ \A j, k \in DOMAIN d16_beams[p] : d16_beams[p][j] = d16_beams[p][k] => j = k
        /\ d16_start = [pos |-> Point16(0, 0), dir |-> "Right"] =>
              d16_result = Cardinality(RefEnergized(d16_grid, d16_start))
\* part_1 returned on a grid where the beam was split, turned by a mirror,
\* left the grid and met a tile it had already passed in the same direction
C7_Witness ==
    /\ d16_pc = "done"
    /\ d16_start = [pos |-> Point16(0, 0), dir |-> "Right"]
    /\ d16_grid.width = Dims16.width
    /\ \E p \in DOMAIN d16_beams : Len(d16_beams[p]) >= 2
    /\ \E p \in DOMAIN d16_beams : d16_grid.grid[p] \in {"Slash", "BackSlash"}
    /\ \E p \in DOMAIN d16_beams : d16_grid.grid[p] \in {"Vertical", "Horizontal"}
    /\ d16_result < Dims16.width * Dims16.height
    /\ d16_result >= 4
\* the test grid: 46 tiles
C7_TestGrid ==
    (d16_pc = "done" /\ d16_grid.width = 10
        /\ d16_start = [pos |-> Point16(0, 0), dir |-> "Right"]) => d16_result = 46

\* C8: Day22::part_1 returns the number of settled bricks b such that every
\* brick resting directly on b is also supported by a brick other than b,
\* i.e. the number of bricks whose removal alone lets no other brick fall.
\* The reference works on sets of cells: a brick falls one level while it is
\* above the ground and the cells below it are free of other bricks.
RefLowered(b) == Brick22([b.begin EXCEPT !.z = @ - 1], [b.end EXCEPT !.z = @ - 1])
RefCanFall(b, B) ==
    /\ b.begin.z > 1
    /\ \A c \in B \ {b} : Cells22(RefLowered(b)) \cap Cells22(c) = {}
RECURSIVE RefFall(_)
RefFall(B) ==
    IF \E b \in B : RefCanFall(b, B)
    THEN LET b == CHOOSE c \in B : RefCanFall(c, B)
         IN RefFall((B \ {b}) \cup {RefLowered(b)})
    ELSE B
RefRestsOn(a, b) == a # b /\ Cells22(RefLowered(a)) \cap Cells22(b) # {}
RefSafe(B) ==
    {b \in B : \A a \in B : RefRestsOn(a, b) => \E c \in B \ {b} : RefRestsOn(a, c)}
RefRemovable(B) == {b \in B : RefFall(B \ {b}) = B \ {b}}
C8_SafeBricksCounted ==
    /\ d22_pc # "panicked"
    /\ d22_pc \in {"count", "done"} => Range(d22_bricks) = RefFall(Range(d22_input))
    /\ d22_pc = "done" =>
          /\ d22_count = Cardinality(RefSafe(Range(d22_bricks)))
          /\ d22_count = Cardinality(RefRemovable(Range(d22_bricks)))
\* part_1 returned on a generated snapshot in which bricks fell, some brick
\* is counted and some brick is the only support of another (not counted)
C8_Witness ==
    /\ d22_pc = "done"
    /\ Len(d22_input) <= MaxBricks22
    /\ Range(d22_bricks) # Range(d22_input)
    /\ d22_count >= 1
    /\ d22_count < Len(d22_bricks)
    /\ \E a, b \in Range(d22_bricks) : RefRestsOn(a, b) /\ b \notin RefSafe(Range(d22_bricks))
\* three bricks, the third resting on the two others
C8_WitnessTwoSupports ==
    /\ d22_pc = "done"
    /\ Range(d22_bricks) # Range(d22_input)
    /\ \E a, b, c \in Range(d22_bricks) :
          b # c /\ RefRestsOn(a, b) /\ RefRestsOn(a, c) /\ d22_count = 3
\* the test snapshot: 5
C8_TestSnapshot == (d22_pc = "done" /\ d22_input = TestBricks22) => d22_count = 5

\* C9: iterating a brick with begin <= end in every coordinate yields its
\* voxels once each, from begin to end along the one axis that varies, then
\* None; a single-cube brick yields its one voxel.
RefVarying(b) == {c \in {"x", "y", "z"} : b.begin[c] # b.end[c]}
RefLength(b) == Cardinality(Cells22(b))
RefAt(b, k) == [c \in {"x", "y", "z"} |-> IF c \in RefVarying(b) THEN b.begin[c] + k - 1 ELSE b.begin[c]]
C9_IterYieldsBrick ==
    Cardinality(RefVarying(it_iter.brick)) <= 1 =>
        /\ \A k \in DOMAIN it_out :
              IF k <= RefLength(it_iter.brick)
              THEN it_out[k].some /\ it_out[k].item = RefAt(it_iter.brick, k)
              ELSE ~it_out[k].some
        /\ {RefAt(it_iter.brick, k) : k \in 1..RefLength(it_iter.brick)} = Cells22(it_iter.brick)
        /\ RefAt(it_iter.brick, RefLength(it_iter.brick)) = it_iter.brick.end
\* a brick of three voxels along y, iterated past its end: three voxels, then
\* None twice
C9_Witness ==
    /\ RefVarying(it_iter.brick) = {"y"}
    /\ RefLength(it_iter.brick) = 3
    /\ Len(it_out) = 5
    /\ it_out[3].some /\ it_out[3].item = it_iter.brick.end
    /\ ~it_out[4].some /\ ~it_out[5].some
\* a single cube: its voxel, then None
C9_WitnessCube ==
    /\ it_iter.brick.begin = it_iter.brick.end
    /\ it_iter.brick.begin.x >= 0
    /\ Len(it_out) = 2
    /\ it_out[1].some /\ it_out[1].item = it_iter.brick.begin /\ ~it_out[2].some

\* C10: Day05::part_1 returns the least location over the listed seeds, a
\* map sending a number inside a listed source range to dest_start +
\* (number - source_start) and every other number to itself, for every
\* almanac, wherever its listed ranges lie.
RefMapped(block, n) ==
    LET lines == {k \in DOMAIN block : block[k][2] <= n /\ n < block[k][2] + block[k][3]}
    IN IF lines = {} THEN n
       ELSE LET k == CHOOSE j \in lines : TRUE IN block[k][1] + (n - block[k][2])
RECURSIVE RefThrough(_, _, _)
RefThrough(blocks, k, n) ==
    IF k > Len(blocks) THEN n ELSE RefThrough(blocks, k + 1, RefMapped(blocks[k], n))
RefLocations(file) == {RefThrough(file.blocks, 1, file.seeds[k]) : k \in DOMAIN file.seeds}
C10_LeastLocation ==
    d05_pc = "done" =>
        /\ d05_result \in RefLocations(d05_file)
        /\ \A n \in RefLocations(d05_file) : d05_result <= n
\* a listed source range reaches below the smallest listed destination start
\* of its block: the mapping pushed at the front covers part of it
Shadowed05(block) ==
    \E k, j \in DOMAIN block : block[k][2] < block[j][1] /\ \A m \in DOMAIN block : block[j][1] <= block[m][1]
\* what does hold: the claim on the almanacs none of whose blocks is shadowed
C10_LeastLocationUnshadowed ==
    (\A k \in DOMAIN d05_file.blocks : ~Shadowed05(d05_file.blocks[k])) => C10_LeastLocation
C10_WitnessUnshadowed ==
    /\ d05_pc = "done"
    /\ d05_file.seeds # TestSeeds05
    /\ \A k \in DOMAIN d05_file.blocks : ~Shadowed05(d05_file.blocks[k])
    /\ \E k \in DOMAIN d05_file.blocks : d05_file.blocks[k][1][1] = 5
    /\ d05_result # d05_file.seeds[1]

\* C11: Day05::part_2 returns the least Almanac::location over every seed
\* contained in a seed range, for every almanac with a non-empty seed range.
RefRangeSeeds(seeds) ==
    UNION {LET r == seed_ranges(seeds)[k] IN r.start..(r.end - 1) : k \in DOMAIN seed_ranges(seeds)}
RefRangeLocations == {location(d05_tables, n) : n \in RefRangeSeeds(d05_file.seeds)}
C11_Returned ==
    d05_pc = "done2" =>
        /\ d05_result \in RefRangeLocations
        /\ \A n \in RefRangeLocations : d05_result <= n
C11_LeastLocationOfRanges ==
    RefRangeSeeds(d05_file.seeds) # {} =>
        /\ d05_pc # "panicked2"
        /\ C11_Returned
\* the test almanac: 46
C11_TestAlmanac ==
    d05_file.seeds = TestSeeds05 =>
        /\ d05_pc # "panicked2"
        /\ d05_pc = "done2" => d05_result = 46

\* C12: for every row, count_solutions from an empty cache is the number of
\* ways to make each Unknown spring Working or Broken such that the lengths
\* of the maximal runs of Broken springs, left to right, are the groups;
\* part_1 is the sum over the rows.
RefUnknowns(springs) == {k \in DOMAIN springs : springs[k] = "Unknown"}
RefFilled(springs, choice) ==
    [k \in DOMAIN springs |-> IF springs[k] = "Unknown" THEN choice[k] ELSE springs[k]]
RECURSIVE RefRunsFrom(_, _)
RefRunsFrom(a, k) ==
    IF k > Len(a) THEN <<>>
    ELSE IF a[k] = "Working" THEN RefRunsFrom(a, k + 1)
    ELSE LET n == Cardinality({j \in k..Len(a) : \A i \in k..j : a[i] = "Broken"})
         IN <<n>> \o RefRunsFrom(a, k + n)
RefArrangements(row) ==
    {choice \in [RefUnknowns(row.springs) -> {"Working", "Broken"}] :
        RefRunsFrom(RefFilled(row.springs, choice), 1) = row.groups}
RefCounts(rows) == [k \in DOMAIN rows |-> Cardinality(RefArrangements(rows[k]))]
C12_CountsArrangements ==
    /\ \A k \in DOMAIN d12_counts : d12_counts[k] = RefCounts(d12_input)[k]
    /\ d12_pc = "done" => d12_result = SumSeq(RefCounts(d12_input))
\* the rows whose groups are all at least 1
PositiveGroups12(rows) ==
    \A k \in DOMAIN rows : \A j \in DOMAIN rows[k].groups : rows[k].groups[j] >= 1
\* C12, amended: for every row whose groups are all at least 1,
\* count_solutions from an empty cache is the number of fillings of the
\* Unknown springs whose runs of Broken springs are the groups, and part_1
\* is the sum over the rows.
C12_CountsArrangementsPositive ==
    PositiveGroups12(d12_input) => C12_CountsArrangements
\* part_1 returned on two rows, the first a generated row with two groups and
\* several arrangements, counted over both branches of an Unknown spring
C12_Witness ==
    /\ d12_pc = "done"
    /\ Len(d12_input) = 2
    /\ PositiveGroups12(d12_input)
    /\ Len(d12_input[1].groups) = 2
    /\ Cardinality(RefUnknowns(d12_input[1].springs)) >= 3
    /\ d12_counts[1] >= 2
    /\ d12_result = d12_counts[1] + d12_counts[2]
    /\ d12_counts[2] >= 1
\* the test input: 21
C12_TestInput == (d12_pc = "done" /\ d12_input = TestRows12) => d12_result = 21

\* C13: part_2 (combinations from "in" with the four full rating ranges) is
\* the number of parts, each rating in the full range, for which
\* is_part_accepted("in", part, workflows) returns true, on every acyclic set
\* of workflows.
AcceptedParts19 ==
    {part \in AllParts19 : is_part_accepted("in", part, d19_workflows) = "true"}
C13_RangesCountAcceptedParts ==
    d19_pc \in {"done2", "panicked2"} =>
        /\ d19_pc = "done2"
        /\ d19_result = Cardinality(AcceptedParts19)
\* every workflow that is named is listed: "in" and the target of every Goto
Listed19(workflows) ==
    /\ "in" \in DOMAIN workflows
    /\ \A w \in DOMAIN workflows : \A i \in DOMAIN workflows[w] :
          workflows[w][i].action.kind = "Goto" =>
              workflows[w][i].action.to \in DOMAIN workflows
\* C13, amended: the same on every acyclic set of workflows that lists "in"
\* and every workflow its rules name.
C13_RangesCountAcceptedPartsListed ==
    Listed19(d19_workflows) => C13_RangesCountAcceptedParts
\* part_2 returned on two workflows, the second reached through a condition
\* that splits a range, with some parts accepted and some rejected
C13_Witness ==
    /\ d19_pc = "done2"
    /\ DOMAIN d19_workflows = {"in", "px"}
    /\ d19_workflows["in"][1].action.kind = "Goto"
    /\ d19_workflows["in"][1].cond = Cond19("Gt", "m", 1)
    /\ d19_workflows["px"][1].cond = Cond19("Lt", "m", MaxRating19)
    /\ d19_workflows["px"][1].action.kind = "Accepted"
    /\ d19_workflows["px"][2].action.kind = "Rejected"
    /\ d19_workflows["in"][2].action.kind = "Rejected"
    /\ d19_result = (MaxRating19 - 2) * MaxRating19 * MaxRating19 * MaxRating19
    /\ d19_result > 0

\* C14: part_1 returns the least total heat loss (the blocks entered, the
\* start block not counted) over all paths from the top-left block to the
\* bottom-right block that never reverse and never move more than three
\* consecutive blocks in one direction, the run that leaves the start block
\* limited like every other run.
RefHeadings == {"Up", "Right", "Down", "Left"}
RefOpposite(h) ==
    CASE h = "Up" -> "Down" [] h = "Down" -> "Up" [] h = "Left" -> "Right" [] h = "Right" -> "Left"
RefDx(h) == CASE h = "Left" -> -1 [] h = "Right" -> 1 [] OTHER -> 0
RefDy(h) == CASE h = "Up" -> -1 [] h = "Down" -> 1 [] OTHER -> 0
\* a crucible on block (x, y) after `run` blocks moved in heading h; at the
\* start it has moved in no direction: heading "-"
RefCrucible(x, y, h, run) == [x |-> x, y |-> y, h |-> h, run |-> run]
\* the crucibles one block further; `counted` is the number of blocks the
\* start block counts for in the run that leaves it (0 in the claim)
RefMoves(grid, n, counted) ==
    {[cr |-> RefCrucible(n.x + RefDx(h), n.y + RefDy(h), h,
                         IF h = n.h THEN n.run + 1
                         ELSE IF n.h = "-" THEN counted + 1 ELSE 1),
      loss |-> grid[n.y + RefDy(h) + 1][n.x + RefDx(h) + 1]] :
        h \in {g \in RefHeadings :
                 /\ n.h # "-" => g # RefOpposite(n.h)
                 /\ g = n.h => n.run + 1 <= 3
                 /\ n.x + RefDx(g) \in 0..(Len(grid) - 1)
                 /\ n.y + RefDy(g) \in 0..(Len(grid) - 1)}}
RefReachedWith(grid, levels, c, counted) ==
    UNION {{m.cr : m \in {t \in RefMoves(grid, p, counted) : t.loss = c - k}} :
            <<k, p>> \in UNION {{<<j, q>> : q \in levels[j + 1]} :
                                  j \in {i \in 0..(c - 1) : i >= c - 9}}}
RECURSIVE RefLevels(_, _, _, _)
RefLevels(grid, levels, seen, counted) ==
    LET c == Len(levels) - 1
    IN IF \E n \in levels[c + 1] : n.x = Len(grid) - 1 /\ n.y = Len(grid) - 1 THEN c
       ELSE IF c >= 9 /\ \A j \in (c - 8)..c : levels[j + 1] = {} THEN -1
       ELSE LET new == RefReachedWith(grid, levels, c + 1, counted) \ seen
            IN RefLevels(grid, Append(levels, new), seen \cup new, counted)
\* the least heat loss from the top-left block to the bottom-right block
RefLeastLoss(grid, counted) ==
    RefLevels(grid, <<{RefCrucible(0, 0, "-", 0)}>>, {RefCrucible(0, 0, "-", 0)}, counted)
C14_LeastHeatLoss ==
    d17_pc # "parsed" => (d17_pc = "done" /\ d17_result = RefLeastLoss(d17_input, 0))
\* what part_1 returns: the least heat loss when the start block counts as
\* the first block of the run that leaves it, which is then at most two
\* blocks long
C14_LeastWithShortFirstRun ==
    d17_pc # "parsed" => (d17_pc = "done" /\ d17_result = RefLeastLoss(d17_input, 1))
C14_WitnessShortFirstRun ==
    /\ d17_pc = "done"
    /\ d17_input \notin {TestGrid17, StairGrid17}
    /\ d17_result = RefLeastLoss(d17_input, 1)
    /\ d17_result > RefLeastLoss(d17_input, 0)
\* the staircase grid: the staircase costs 24, part_1 returns 32
C14_StairGrid ==
    (d17_pc # "parsed" /\ d17_input = StairGrid17) =>
        d17_result = 32 /\ RefLeastLoss(StairGrid17, 0) = 24
\* the test grid: 102
C14_TestGrid == (d17_pc # "parsed" /\ d17_input = TestGrid17) => d17_result = 102

====
